---- MODULE Spec2Model ----
(***************************************************************************)
(* Verification model of libantplus (python-antpluslib).                   *)
(*                                                                         *)
(* Spec       the dongle session: the caller's thread running              *)
(*            configure_channel / close_and_unassign_channel, the dongle   *)
(*            answering the commands written to it, and the handler        *)
(*            thread dispatching the ChannelResponse frames it reads.      *)
(* SpecDeque  the byte deque: the read thread appending USB bytes and the  *)
(*            handler thread running read_message_from_deque, interleaved  *)
(*            at the granularity of one deque operation.                   *)
(***************************************************************************)
EXTENDS Integers, Sequences, FiniteSets, TLC

VARIABLES
    \* ---- Dongle (dongle.py) ----
    channels,        \* Dongle.channels: slot -> interface or None
    networks,        \* Dongle.networks: slot -> network key or None
    network_flag,    \* Dongle.network_flag
    handler_alive,   \* the handler thread has not been ended by an exception
    \* ---- AntInterface (interface.py), one entry per interface object ----
    channel,         \* interface.channel (-1: attribute not set yet)
    status,          \* interface.status
    action,          \* interface.action
    \* ---- the caller's thread ----
    pc,              \* position of the caller inside the running operation
    cur,             \* configure_channel's `interface`
    step,            \* index in ConfigSteps(cur) of the command being awaited
    network,         \* _get_network_number's local `network`
    closing,         \* close_and_unassign_channel's `channel_number`
    result,          \* how the caller's last operation ended
    \* ---- USB ----
    usbout,          \* commands written to endpoint 0x01, not yet answered
    inbound,         \* frames read from endpoint 0x81, not yet dispatched
    \* ---- history ----
    wlog,            \* per interface: commands written by its latest configure_channel
    acked,           \* per interface: command ids answered RESPONSE_NO_ERROR since then
    owned,           \* per interface: the caller holds it configured
    nconf,           \* configure_channel calls that took a channel slot
    nok,             \* configure_channel calls that returned
    nclosed,         \* close_and_unassign_channel calls that returned
    ncalls,          \* operations started by the caller
    timeouts,        \* waits that ran into their deadline
    \* ---- byte deque (SpecDeque) ----
    usb,             \* bytes the USB device has still to deliver
    rbuf,            \* read_to_deque's `messages`, the part not yet appended
    messages_deque,  \* Dongle.messages_deque
    dpc,             \* position of the handler thread in read_message_from_deque
    message,         \* read_message_from_deque's `message`
    need,            \* bytes the for loop has still to pop
    topush,          \* bytes the except branch has still to push back
    ret,             \* what the last finished call returned
    obtained,        \* frames returned so far, in order
    noise,           \* the non-sync bytes the device delivers first
    delivered,       \* the frames the device delivers after them, in order
    dqAtCall,        \* the deque when the running / last call started
    arrivedAtCall,   \* bytes appended to the deque before that call started
    \* ---- threads and release (SpecThreads) ----
    read_thread_active,     \* Dongle.read_thread_active
    handler_thread_active,  \* Dongle.handler_thread_active
    rpc,             \* position of the read thread
    hpc,             \* position of the handler thread
    rtn,             \* messages the handler thread has still to write
    usbin,           \* frames the dongle holds ready on endpoint 0x81
    cycplus,         \* Dongle.cycplus
    paired,          \* per interface: interface.paired
    data_value,      \* per interface: the value last stored in interface.data
    op,              \* the caller's operation in progress
    nops,            \* operations started by the caller (SpecThreads)
    resets,          \* RESET_SYSTEM messages written
    \* ---- one profile interface (SpecProfile) ----
    prof,            \* the interface's class
    interleave,      \* AntPlusInterface.interleave
    page_change_toggle,  \* AntHRM.page_change_toggle
    ppaired,         \* interface.paired
    heart_rate,      \* interface.data.heart_rate
    reply,           \* what the last handle_received_message call returned
    praised,         \* the exception that call raised, or None
    lastcall,        \* the frame that call handled
    bpage,           \* page number byte of the latest broadcast
    nticks,          \* EVENT_TX frames handled
    nrequests,       \* page 70 requests handled
    mode,            \* BushidoHeadUnit.mode
    brake_mode,      \* the mode of the brake the head unit talks to
    \* ---- one frame and a bridge side (SpecFrames) ----
    f_id,            \* the message id
    f_info,          \* the message content
    fpc,             \* how far the frame has got
    framed,          \* AntMessage.compose(f_id, f_info)
    decomposed,      \* AntMessage.decompose(framed)
    b_channel,       \* the bridge side's channel
    target_channel,  \* the bridge side's target_channel
    b_paired,        \* the bridge side's paired
    b_out,           \* what the bridge side's handler returned
    nframed          \* frames taken as input so far

sessionVars == <<channels, networks, network_flag, handler_alive, channel, status,
                 action, pc, cur, step, network, closing, result, usbout, inbound,
                 wlog, acked, owned, nconf, nok, nclosed, ncalls, timeouts>>
dequeVars == <<usb, rbuf, messages_deque, dpc, message, need, topush, ret,
               obtained, noise, delivered, dqAtCall, arrivedAtCall>>
threadVars == <<read_thread_active, handler_thread_active, rpc, hpc, rtn, usbin,
                cycplus, paired, data_value, op, nops, resets>>
profileVars == <<prof, interleave, page_change_toggle, ppaired, heart_rate, reply,
                 praised, lastcall, bpage, nticks, nrequests, mode, brake_mode>>
frameVars == <<f_id, f_info, fpc, framed, decomposed, b_channel, target_channel,
               b_paired, b_out, nframed>>
vars == <<sessionVars, dequeVars, threadVars, profileVars, frameVars>>

None == "None"

(***************************************************************************)
(* Bounds of the model.                                                    *)
(***************************************************************************)
\* Capabilities reported by the dongle (calibrate): channel and network slots.
max_channels == 2
max_networks == 2
\* Operations the caller starts in one run.
MaxCalls == 3
\* Waits that expire in one run.
MaxTimeouts == 1
\* The USB stream of SpecDeque: non-sync bytes in front, frames after them,
\* bytes of message content per frame, bytes returned by one USB read.
MaxNoise == 1
MaxFrames == 2
MaxInfo == 1
MaxChunk == 2

(***************************************************************************)
(* Program constants.                                                      *)
(***************************************************************************)
power_0db == 3
SYNC == 164
\* Id.ChannelResponse
ChannelResponseId == 64

NO_ERROR == "RESPONSE_NO_ERROR"
CHANNEL_CLOSED == "EVENT_CHANNEL_CLOSED"
\* One of the error codes of ChannelResponseMessage.Code (21).
WRONG_STATE == "CHANNEL_IN_WRONG_STATE"

\* The interface objects of a run, with the class attributes of their profile.
Interfaces == {"hrm", "bhu", "usr"}

InterfaceCfg(x) ==
    CASE x = "hrm" -> [network_key |-> "ant_plus_network_key", channel_frequency |-> 57,
                       channel_period |-> 8070, transmit_power |-> 3, master |-> TRUE]
      [] x = "bhu" -> [network_key |-> None, channel_frequency |-> 60,
                       channel_period |-> 4096, transmit_power |-> 3, master |-> FALSE]
      [] OTHER     -> [network_key |-> "default_network_key", channel_frequency |-> 66,
                       channel_period |-> 8192, transmit_power |-> 4, master |-> TRUE]

\* Outcomes of read_message_from_deque: still running, the exception raised,
\* the message returned.
NotReturned == [raised |-> None, msg |-> <<>>]
NoMessagesInDeque == [raised |-> "NoMessagesInDeque", msg |-> <<>>]
ReturnedMessage(m) == [raised |-> "", msg |-> m]

Slots == 0 .. (max_channels - 1)
NetSlots == 0 .. (max_networks - 1)

(***************************************************************************)
(* Dongle._get_next_channel: the first slot holding None, -1 when all are  *)
(* taken (the caller then raises NoMoreChannels).                          *)
(***************************************************************************)
FreeSlots(chs) == {i \in Slots : chs[i] = None}

MinOf(S) == CHOOSE m \in S : \A n \in S : m <= n

MaxOf(S) == CHOOSE m \in S : \A n \in S : m >= n

\* _get_next_channel with the fault of taking the last free slot.
GetNextChannelLast(chs) == IF FreeSlots(chs) = {} THEN -1 ELSE MaxOf(FreeSlots(chs))

GetNextChannel(chs) == IF FreeSlots(chs) = {} THEN -1 ELSE MinOf(FreeSlots(chs))

(***************************************************************************)
(* Dongle._get_network_number, up to its write: the slot of a key already  *)
(* stored (networks.index(key)), else the first free slot from 1 on        *)
(* (networks.index(None, 1)), -1 when there is none (NoMoreNetworks).      *)
(***************************************************************************)
KeySlots(nets, key) == {n \in NetSlots : nets[n] = key}

\* The search for a free entry starting at entry 0.
FreeNetSlotsFromZero(nets) == {n \in NetSlots : nets[n] = None}

FreeNetSlots(nets) == {n \in NetSlots : n >= 1 /\ nets[n] = None}

(***************************************************************************)
(* SetNetworkKeyMessage._parse_args: network and key taken from kwargs,    *)
(* network 0 and the ANT+ key when kwargs does not give them.  The first   *)
(* content byte (the network number) is what the dongle's ChannelResponse  *)
(* carries as its channel.                                                 *)
(***************************************************************************)
SetNetworkKeyMessage(kwargs) ==
    [id |-> "SetNetworkKey",
     channel |-> IF "network" \in DOMAIN kwargs THEN kwargs.network ELSE 0,
     key |-> IF "key" \in DOMAIN kwargs THEN kwargs.key ELSE "ant_plus_network_key"]

\* The configuration commands configure_channel writes for interface x, in
\* order; the optional ones depend on x's attributes.
ConfigSteps(x) ==
    LET c == InterfaceCfg(x) IN
    <<"AssignChannel", "ChannelID">>
    \o (IF c.channel_frequency # 66 THEN <<"ChannelRfFrequency">> ELSE <<>>)
    \o (IF c.channel_period # 8192 THEN <<"ChannelPeriod">> ELSE <<>>)
    \o (IF c.transmit_power # power_0db THEN <<"ChannelTransmitPower">> ELSE <<>>)
    \o (IF ~c.master THEN <<"ChannelSearchTimeout">> ELSE <<>>)
    \o <<"OpenChannel">>

(***************************************************************************)
(* AntInterface.wait_for_status / wait_for_action: the condition polled    *)
(* while the command `id` is awaited.                                      *)
(***************************************************************************)
WaitCondition(x, id) ==
    CASE id = "AssignChannel" -> status[x] = "ASSIGNED"
      [] id = "OpenChannel"   -> status[x] = "OPEN"
      [] OTHER                -> action[x] = id

\* USBDongle._write of a command of interface x's channel.
Written(id, ch) == Append(usbout, [id |-> id, channel |-> ch])

LogWrite(x, id) == Append(wlog[x], [id |-> id, acks |-> acked[x]])

(***************************************************************************)
(* AntInterface._handle_channel_response_message: the status a             *)
(* ChannelResponse leaves.                                                 *)
(***************************************************************************)
StatusAfter(old, id, code) ==
    IF code = CHANNEL_CLOSED THEN "CLOSED"
    ELSE IF code = NO_ERROR THEN
        CASE id = "AssignChannel"   -> "ASSIGNED"
          [] id = "OpenChannel"     -> "OPEN"
          [] id = "CloseChannel"    -> "CLOSING"
          [] id = "UnassignChannel" -> "UNASSIGNED"
          [] OTHER                  -> old
    ELSE old

\* The action set to the id answered whatever the code.
ActionAfterAnyCode(old, id, code) == id

ActionAfter(old, id, code) == IF code = NO_ERROR THEN id ELSE old

\* A handler that takes no response for itself.
channel_response_handler_off(id, code) == FALSE

\* Dongle._channel_response_handler: RESPONSE_NO_ERROR to SetNetworkKey
channel_response_handler(id, code) == code = NO_ERROR /\ id = "SetNetworkKey"

SessionInit ==
    /\ channels = [i \in Slots |-> None]
    /\ networks = [n \in NetSlots |-> None]
    /\ network_flag = FALSE
    /\ handler_alive = TRUE
    /\ channel = [x \in Interfaces |-> -1]
    /\ status = [x \in Interfaces |-> "UNASSIGNED"]
    /\ action = [x \in Interfaces |-> None]
    /\ pc = "idle"
    /\ cur = None
    /\ step = 0
    /\ network = 0
    /\ closing = 0
    /\ result = "none"
    /\ usbout = <<>>
    /\ inbound = <<>>
    /\ wlog = [x \in Interfaces |-> <<>>]
    /\ acked = [x \in Interfaces |-> {}]
    /\ owned = [x \in Interfaces |-> FALSE]
    /\ nconf = 0
    /\ nok = 0
    /\ nclosed = 0
    /\ ncalls = 0
    /\ timeouts = 0

DequeIdle ==
    /\ usb = <<>>
    /\ rbuf = <<>>
    /\ messages_deque = <<>>
    /\ dpc = "idle"
    /\ message = <<>>
    /\ need = 0
    /\ topush = <<>>
    /\ ret = NotReturned
    /\ obtained = <<>>
    /\ noise = <<>>
    /\ delivered = <<>>
    /\ dqAtCall = <<>>
    /\ arrivedAtCall = 0

\* No thread started, nothing received.
ThreadsIdle ==
    /\ read_thread_active = FALSE
    /\ handler_thread_active = FALSE
    /\ rpc = "off"
    /\ hpc = "off"
    /\ rtn = <<>>
    /\ usbin = <<>>
    /\ cycplus = FALSE
    /\ paired = [x \in Interfaces |-> FALSE]
    /\ data_value = [x \in Interfaces |-> 0]
    /\ op = "none"
    /\ nops = 0
    /\ resets = 0

\* No profile interface constructed.
ProfilesIdle ==
    /\ prof = None
    /\ interleave = 0
    /\ page_change_toggle = 0
    /\ ppaired = FALSE
    /\ heart_rate = 0
    /\ reply = <<>>
    /\ praised = None
    /\ lastcall = None
    /\ bpage = -1
    /\ nticks = 0
    /\ nrequests = 0
    /\ mode = None
    /\ brake_mode = None

\* No frame composed, no bridge.
FramesIdle ==
    /\ f_id = 0
    /\ f_info = <<>>
    /\ fpc = "off"
    /\ framed = <<>>
    /\ decomposed = None
    /\ b_channel = 0
    /\ target_channel = 0
    /\ b_paired = FALSE
    /\ b_out = None
    /\ nframed = 0

Init == SessionInit /\ DequeIdle /\ ThreadsIdle /\ ProfilesIdle /\ FramesIdle

(***************************************************************************)
(* Dongle.configure_channel, from the call to its first write or raise:    *)
(* _get_next_channel, the slot and interface.channel assignments, and      *)
(* _get_network_number up to SET_NETWORK_KEY.  The caller passes an        *)
(* interface it does not hold configured.                                  *)
(***************************************************************************)
ConfigureChannel(x) ==
    /\ pc = "idle"
    /\ ~owned[x]
    /\ ncalls < MaxCalls
    /\ ncalls' = ncalls + 1
    /\ LET c == GetNextChannel(channels)
           key == InterfaceCfg(x).network_key
       IN
       IF c = -1 THEN
           \* raise NoMoreChannels
           /\ result' = "NoMoreChannels"
           /\ UNCHANGED <<channels, channel, pc, cur, step, network, usbout, wlog,
                          acked, nconf>>
       ELSE
           /\ channels' = [channels EXCEPT ![c] = x]
           /\ channel' = [channel EXCEPT ![x] = c]
           /\ nconf' = nconf + 1
           /\ cur' = x
           /\ acked' = [acked EXCEPT ![x] = {}]
           /\ IF key = None \/ KeySlots(networks, key) # {} THEN
                  /\ network' = (IF key = None THEN 0 ELSE MinOf(KeySlots(networks, key)))
                  /\ usbout' = Written("AssignChannel", c)
                  /\ wlog' = [wlog EXCEPT ![x] = <<[id |-> "AssignChannel", acks |-> {}]>>]
                  /\ pc' = "cfg_wait"
                  /\ step' = 1
                  /\ UNCHANGED result
              ELSE IF FreeNetSlots(networks) = {} THEN
                  \* raise NoMoreNetworks
                  /\ result' = "NoMoreNetworks"
                  /\ wlog' = [wlog EXCEPT ![x] = <<>>]
                  /\ UNCHANGED <<pc, step, network, usbout>>
              ELSE
                  /\ network' = MinOf(FreeNetSlots(networks))
                  \* self._write(SetNetworkKeyMessage()): no argument is passed
                  /\ usbout' = Append(usbout, SetNetworkKeyMessage(<<>>))
                  /\ wlog' = [wlog EXCEPT ![x] = <<>>]
                  /\ pc' = "net_wait"
                  /\ UNCHANGED <<step, result>>
    /\ UNCHANGED <<networks, network_flag, handler_alive, status, action, closing,
                   inbound, owned, nclosed, timeouts>>
    /\ UNCHANGED dequeVars
    /\ UNCHANGED <<threadVars, profileVars, frameVars>>
    /\ UNCHANGED nok

(***************************************************************************)
(* _get_network_number after its polling loop, network_flag set: store     *)
(* the key, clear the flag; configure_channel then writes ASSIGN_CHANNEL.  *)
(***************************************************************************)
NetworkKeySet ==
    /\ pc = "net_wait"
    /\ network_flag
    /\ networks' = [networks EXCEPT ![network] = InterfaceCfg(cur).network_key]
    /\ network_flag' = FALSE
    /\ usbout' = Written("AssignChannel", channel[cur])
    /\ wlog' = [wlog EXCEPT ![cur] = <<[id |-> "AssignChannel", acks |-> {}]>>]
    /\ pc' = "cfg_wait"
    /\ step' = 1
    /\ UNCHANGED <<channels, handler_alive, channel, status, action, cur, network,
                   closing, result, inbound, acked, owned, nconf, nclosed, ncalls,
                   timeouts>>
    /\ UNCHANGED dequeVars
    /\ UNCHANGED <<threadVars, profileVars, frameVars>>
    /\ UNCHANGED nok

\* _get_network_number: the loop ran 10 s with network_flag clear: raise ValueError.
NetworkKeyTimeout ==
    /\ pc = "net_wait"
    /\ ~network_flag
    /\ timeouts < MaxTimeouts
    /\ timeouts' = timeouts + 1
    /\ pc' = "idle"
    /\ result' = "ValueError"
    /\ UNCHANGED <<channels, networks, network_flag, handler_alive, channel, status,
                   action, cur, step, network, closing, usbout, inbound, wlog, acked,
                   owned, nconf, nclosed, ncalls>>
    /\ UNCHANGED dequeVars
    /\ UNCHANGED <<threadVars, profileVars, frameVars>>
    /\ UNCHANGED nok

(***************************************************************************)
(* configure_channel after a wait_for_status / wait_for_action returned:   *)
(* the value returned is not looked at; the next command of the sequence   *)
(* is written, or the call returns after the wait for OPEN.                *)
(***************************************************************************)
AfterWait ==
    IF step < Len(ConfigSteps(cur)) THEN
        /\ usbout' = Written(ConfigSteps(cur)[step + 1], channel[cur])
        /\ wlog' = [wlog EXCEPT ![cur] = LogWrite(cur, ConfigSteps(cur)[step + 1])]
        /\ step' = step + 1
        /\ UNCHANGED <<pc, result, owned, nok>>
    ELSE
        /\ pc' = "idle"
        /\ result' = "ok"
        /\ owned' = [owned EXCEPT ![cur] = TRUE]
        /\ nok' = nok + 1
        /\ UNCHANGED <<usbout, wlog, step>>

\* The wait returns True: the polled condition holds.
WaitSatisfied ==
    /\ pc = "cfg_wait"
    /\ WaitCondition(cur, ConfigSteps(cur)[step])
    /\ AfterWait
    /\ UNCHANGED <<channels, networks, network_flag, handler_alive, channel, status,
                   action, cur, network, closing, inbound, acked, nconf, nclosed,
                   ncalls, timeouts>>
    /\ UNCHANGED dequeVars
    /\ UNCHANGED <<threadVars, profileVars, frameVars>>

\* The wait returns False: 10 s went by with the condition false.
WaitTimedOut ==
    /\ pc = "cfg_wait"
    /\ ~WaitCondition(cur, ConfigSteps(cur)[step])
    /\ timeouts < MaxTimeouts
    /\ timeouts' = timeouts + 1
    /\ AfterWait
    /\ UNCHANGED <<channels, networks, network_flag, handler_alive, channel, status,
                   action, cur, network, closing, inbound, acked, nconf, nclosed,
                   ncalls>>
    /\ UNCHANGED dequeVars
    /\ UNCHANGED <<threadVars, profileVars, frameVars>>

(***************************************************************************)
(* Dongle.close_and_unassign_channel.  `interface is not None` is          *)
(* asserted before anything is written.                                    *)
(***************************************************************************)
CloseAndUnassignChannel(c) ==
    /\ pc = "idle"
    /\ ncalls < MaxCalls
    /\ ncalls' = ncalls + 1
    /\ IF channels[c] = None THEN
           /\ result' = "AssertionError"
           /\ UNCHANGED <<pc, closing, usbout>>
       ELSE
           /\ closing' = c
           /\ usbout' = Written("CloseChannel", c)
           /\ pc' = "close_wait_closed"
           /\ UNCHANGED result
    /\ UNCHANGED <<channels, networks, network_flag, handler_alive, channel, status,
                   action, cur, step, network, inbound, wlog, acked, owned, nconf,
                   nclosed, timeouts>>
    /\ UNCHANGED dequeVars
    /\ UNCHANGED <<threadVars, profileVars, frameVars>>
    /\ UNCHANGED nok

\* wait_for_status returning True although the status was never seen.
StatusSeenRegardless(x, s) == TRUE

\* interface.wait_for_status(s) returns True: the polled status is s.
StatusSeen(x, s) == status[x] = s

\* assert interface.wait_for_status(CLOSED) passed: write UNASSIGN_CHANNEL.
ClosedSeen ==
    /\ pc = "close_wait_closed"
    /\ StatusSeen(channels[closing], "CLOSED")
    /\ usbout' = Written("UnassignChannel", closing)
    /\ pc' = "close_wait_unassigned"
    /\ UNCHANGED <<channels, networks, network_flag, handler_alive, channel, status,
                   action, cur, step, network, closing, result, inbound, wlog, acked,
                   owned, nconf, nclosed, ncalls, timeouts>>
    /\ UNCHANGED dequeVars
    /\ UNCHANGED <<threadVars, profileVars, frameVars>>
    /\ UNCHANGED nok

\* close_and_unassign_channel freeing no slot.
FreedSlotsNone(c) == {}

\* The slot close_and_unassign_channel frees once UNASSIGNED was seen.
FreedSlots(c) == {c}

\* assert interface.wait_for_status(UNASSIGNED) passed: free the slot.
UnassignedSeen ==
    /\ pc = "close_wait_unassigned"
    /\ StatusSeen(channels[closing], "UNASSIGNED")
    /\ channels' = [i \in Slots |-> IF i \in FreedSlots(closing) THEN None ELSE channels[i]]
    /\ owned' = [owned EXCEPT ![channels[closing]] = FALSE]
    /\ nclosed' = nclosed + 1
    /\ pc' = "idle"
    /\ result' = "ok"
    /\ UNCHANGED <<networks, network_flag, handler_alive, channel, status, action, cur,
                   step, network, closing, usbout, inbound, wlog, acked, nconf, ncalls,
                   timeouts>>
    /\ UNCHANGED dequeVars
    /\ UNCHANGED <<threadVars, profileVars, frameVars>>
    /\ UNCHANGED nok

\* Either wait of close_and_unassign_channel returned False: AssertionError.
CloseTimedOut ==
    /\ pc \in {"close_wait_closed", "close_wait_unassigned"}
    /\ ~StatusSeen(channels[closing],
                   IF pc = "close_wait_closed" THEN "CLOSED" ELSE "UNASSIGNED")
    /\ timeouts < MaxTimeouts
    /\ timeouts' = timeouts + 1
    /\ pc' = "idle"
    /\ result' = "AssertionError"
    /\ UNCHANGED <<channels, networks, network_flag, handler_alive, channel, status,
                   action, cur, step, network, closing, usbout, inbound, wlog, acked,
                   owned, nconf, nclosed, ncalls>>
    /\ UNCHANGED dequeVars
    /\ UNCHANGED <<threadVars, profileVars, frameVars>>
    /\ UNCHANGED nok

(***************************************************************************)
(* The dongle answers the oldest command written to it with a              *)
(* ChannelResponse carrying the command's channel and id; an accepted      *)
(* CLOSE_CHANNEL is followed by EVENT_CHANNEL_CLOSED.  The read thread     *)
(* hands the frames to the handler thread in the order read.               *)
(***************************************************************************)
DongleAnswers(code) ==
    /\ usbout # <<>>
    /\ LET cmd == Head(usbout)
           resp == [channel |-> cmd.channel, id |-> cmd.id, code |-> code]
       IN inbound' =
              IF cmd.id = "CloseChannel" /\ code = NO_ERROR
              THEN inbound \o <<resp, [channel |-> cmd.channel, id |-> "RF_EVENT",
                                       code |-> CHANNEL_CLOSED]>>
              ELSE Append(inbound, resp)
    /\ usbout' = Tail(usbout)
    /\ UNCHANGED <<channels, networks, network_flag, handler_alive, channel, status,
                   action, pc, cur, step, network, closing, result, wlog, acked, owned,
                   nconf, nclosed, ncalls, timeouts>>
    /\ UNCHANGED dequeVars
    /\ UNCHANGED <<threadVars, profileVars, frameVars>>
    /\ UNCHANGED nok

(***************************************************************************)
(* One iteration of Dongle._handler_thread_function on a ChannelResponse   *)
(* frame: _channel_response_handler for channel 0, else the interface of   *)
(* the frame's slot.  AttributeError (no interface in the slot) and        *)
(* WrongChannel are caught nowhere and end the thread.                     *)
(***************************************************************************)
HandleFrame ==
    /\ handler_alive
    /\ inbound # <<>>
    /\ inbound' = Tail(inbound)
    /\ LET f == Head(inbound)
           x == channels[f.channel]
       IN
       IF f.channel = 0 /\ channel_response_handler(f.id, f.code) THEN
           /\ network_flag' = TRUE
           /\ UNCHANGED <<handler_alive, status, action, acked>>
       ELSE IF x = None \/ channel[x] # f.channel THEN
           /\ handler_alive' = FALSE
           /\ UNCHANGED <<network_flag, status, action, acked>>
       ELSE
           /\ status' = [status EXCEPT ![x] = StatusAfter(status[x], f.id, f.code)]
           /\ action' = [action EXCEPT ![x] = ActionAfter(action[x], f.id, f.code)]
           /\ acked' = [acked EXCEPT ![x] =
                            IF f.code = NO_ERROR THEN acked[x] \cup {f.id} ELSE acked[x]]
           /\ UNCHANGED <<network_flag, handler_alive>>
    /\ UNCHANGED <<channels, networks, channel, pc, cur, step, network, closing, result,
                   usbout, wlog, owned, nconf, nclosed, ncalls, timeouts>>
    /\ UNCHANGED dequeVars
    /\ UNCHANGED <<threadVars, profileVars, frameVars>>
    /\ UNCHANGED nok

Next ==
    \/ \E x \in Interfaces : ConfigureChannel(x)
    \/ NetworkKeySet
    \/ NetworkKeyTimeout
    \/ WaitSatisfied
    \/ WaitTimedOut
    \/ \E c \in Slots : CloseAndUnassignChannel(c)
    \/ ClosedSeen
    \/ UnassignedSeen
    \/ CloseTimedOut
    \/ \E code \in {NO_ERROR, WRONG_STATE} : DongleAnswers(code)
    \/ HandleFrame

Spec == Init /\ [][Next]_vars

(***************************************************************************)
(* Properties of the session.                                              *)
(***************************************************************************)
Allocated == {i \in Slots : channels[i] # None}

ConfigOrder == <<"AssignChannel", "ChannelID", "ChannelRfFrequency", "ChannelPeriod",
                 "ChannelTransmitPower", "ChannelSearchTimeout", "OpenChannel">>

Rank(id) == CHOOSE k \in DOMAIN ConfigOrder : ConfigOrder[k] = id

\* C1: the commands of a configure_channel call are written in the order
\* ASSIGN, ID, RF, PERIOD, TX_POWER, SEARCH_TIMEOUT, OPEN, and each one only
\* after RESPONSE_NO_ERROR for the one written before it has been handled.
C1_WritesOrderedAndAcknowledged ==
    \A x \in Interfaces : \A i \in DOMAIN wlog[x] :
        i > 1 => /\ Rank(wlog[x][i - 1].id) < Rank(wlog[x][i].id)
                 /\ wlog[x][i - 1].id \in wlog[x][i].acks

\* C2: an interface whose status is OPEN had SET_CHANNEL_ID, and SET_CHANNEL_RF
\* and SET_CHANNEL_PERIOD when they were sent, answered RESPONSE_NO_ERROR
\* before OPEN_CHANNEL was written.
C2_OpenOnlyAfterAcks ==
    \A x \in Interfaces :
        status[x] = "OPEN" =>
            \E i \in DOMAIN wlog[x] :
                /\ wlog[x][i].id = "OpenChannel"
                /\ \A j \in 1 .. (i - 1) :
                       wlog[x][j].id \in {"ChannelID", "ChannelRfFrequency", "ChannelPeriod"}
                           => wlog[x][j].id \in wlog[x][i].acks

\* C3: a wait of configure_channel that runs into its deadline ends the call
\* in failure, and nothing more is written.
C3_TimeoutEndsConfigure ==
    [][(pc \in {"net_wait", "cfg_wait"} /\ timeouts' = timeouts + 1)
           => (pc' = "idle" /\ result' # "ok" /\ usbout' = usbout)]_vars

\* C4: every slot is free or holds an interface whose channel number is the
\* slot's, and no interface is held by two slots.
C4_SlotsHoldOneInterface ==
    \A i \in Slots :
        channels[i] # None =>
            /\ channel[channels[i]] = i
            /\ \A j \in Slots : j # i => channels[j] # channels[i]

\* C5: configure_channel gives the interface the lowest-numbered slot that is
\* free when it is called.
C5_LowestFreeSlot ==
    [][\A x \in Interfaces :
           (pc = "idle" /\ nconf' = nconf + 1 /\ cur' = x)
               => /\ channel'[x] \in FreeSlots(channels)
                  /\ \A j \in FreeSlots(channels) : channel'[x] <= j
                  /\ channels' = [channels EXCEPT ![channel'[x]] = x]]_vars

\* The second configure_channel found slot 0 taken and took slot 1.
C5_Witness == nconf = 2 /\ channels[0] # None /\ channels[1] # None

C7_FailedAllocationKeepsTables ==
    [][(pc = "idle" /\ pc' = "idle" /\ ncalls' = ncalls + 1
            /\ result' \in {"NoMoreChannels", "NoMoreNetworks"})
           => (channels' = channels /\ networks' = networks)]_vars

\* The command written by the step, None when the step writes nothing.
WrittenNow ==
    IF Len(usbout') > Len(usbout) THEN usbout'[Len(usbout')].id ELSE None

\* C13: close_and_unassign_channel writes UNASSIGN_CHANNEL only with the
\* interface's status CLOSED, frees the slot only with the status UNASSIGNED
\* (and after UNASSIGN_CHANNEL was written), and a failed wait leaves the slot
\* allocated.
C13_TeardownSequenced ==
    [][/\ WrittenNow = "UnassignChannel" =>
              (pc = "close_wait_closed" /\ status[channels[closing]] = "CLOSED")
       /\ \A i \in Slots :
              (channels[i] # None /\ channels'[i] = None) =>
                  (i = closing /\ pc = "close_wait_unassigned"
                       /\ status[channels[i]] = "UNASSIGNED")
       /\ (pc \in {"close_wait_closed", "close_wait_unassigned"}
               /\ timeouts' = timeouts + 1) => channels' = channels]_vars

\* A teardown ran to its end: CLOSED and UNASSIGNED were seen, the slot is free.
C13_Witness ==
    /\ pc = "idle"
    /\ nclosed = 1
    /\ nok = 1
    /\ nconf = 1
    /\ channels[closing] = None
    /\ \E x \in Interfaces : action[x] = "UnassignChannel" /\ status[x] = "UNASSIGNED"

LegalStatusChanges ==
    {<<"UNASSIGNED", "ASSIGNED">>, <<"ASSIGNED", "OPEN">>, <<"OPEN", "CLOSING">>,
     <<"CLOSING", "CLOSED">>, <<"CLOSED", "UNASSIGNED">>}

\* C14: every change of an interface's status is one of UNASSIGNED->ASSIGNED,
\* ASSIGNED->OPEN, OPEN->CLOSING, CLOSING->CLOSED, CLOSED->UNASSIGNED.
C14_StatusFollowsLifecycle ==
    [][\A x \in Interfaces :
           status'[x] # status[x] => <<status[x], status'[x]>> \in LegalStatusChanges]_vars

C19_NetworkKeyMessageCarriesSlotAndKey ==
    [][WrittenNow = "SetNetworkKey" =>
           LET m == usbout'[Len(usbout')] IN
           /\ m.channel = network'
           /\ m.key = InterfaceCfg(cur').network_key]_vars

(***************************************************************************)
(* message.py: calc_checksum and AntMessage.compose on byte sequences.     *)
(***************************************************************************)
RECURSIVE XorBits(_, _, _)
XorBits(a, b, n) ==
    IF n = 0 THEN 0
    ELSE (((a % 2) + (b % 2)) % 2) + 2 * XorBits(a \div 2, b \div 2, n - 1)

Xor(a, b) == XorBits(a, b, 8)

\* The XOR of msg[lo] .. msg[hi], 0 for an empty range: the loop of
\* calc_checksum, the range split in halves (XOR is associative).
RECURSIVE XorRange(_, _, _)
XorRange(msg, lo, hi) ==
    IF lo > hi THEN 0
    ELSE IF lo = hi THEN msg[lo]
    ELSE LET mid == (lo + hi) \div 2 IN
         Xor(XorRange(msg, lo, mid), XorRange(msg, mid + 1, hi))

XorUpTo(msg, n) == XorRange(msg, 1, n)

\* A checksum that leaves the sync byte out.
calc_checksum_without_sync(msg) == XorRange(msg, 2, msg[2] + 3)

calc_checksum(msg) == XorUpTo(msg, msg[2] + 3)

compose(id, info) ==
    LET data == <<SYNC, Len(info), id>> \o info IN Append(data, calc_checksum(data))

RECURSIVE Flatten(_)
Flatten(fs) == IF fs = <<>> THEN <<>> ELSE Head(fs) \o Flatten(Tail(fs))

Reverse(s) == [i \in 1 .. Len(s) |-> s[Len(s) + 1 - i]]

IsPrefix(s, t) == Len(s) <= Len(t) /\ SubSeq(t, 1, Len(s)) = s

IsSuffix(s, t) == Len(s) <= Len(t) /\ SubSeq(t, Len(t) - Len(s) + 1, Len(t)) = s

\* The streams of a run: message contents made of sync bytes, so that sync
\* bytes occur inside frames; noise made of a non-sync byte.
Infos == UNION {[1 .. n -> {SYNC}] : n \in 0 .. MaxInfo}

Frames == {compose(ChannelResponseId, info) : info \in Infos}

SeqsUpTo(S, n) == UNION {[1 .. k -> S] : k \in 0 .. n}

Stream == noise \o Flatten(delivered)

\* Every byte appended to the deque so far.
Arrived == SubSeq(Stream, 1, Len(Stream) - Len(rbuf) - Len(usb))

DequeInit ==
    /\ noise \in SeqsUpTo({0}, MaxNoise)
    /\ delivered \in SeqsUpTo(Frames, MaxFrames)
    /\ usb = Stream
    /\ rbuf = <<>>
    /\ messages_deque = <<>>
    /\ dpc = "idle"
    /\ message = <<>>
    /\ need = 0
    /\ topush = <<>>
    /\ ret = NotReturned
    /\ obtained = <<>>
    /\ dqAtCall = <<>>
    /\ arrivedAtCall = 0

(***************************************************************************)
(* Read thread, Dongle.read_to_deque: one USB read of up to n bytes, then  *)
(* one deque.append per byte.                                              *)
(***************************************************************************)
UsbRead(n) ==
    /\ rbuf = <<>>
    /\ n <= Len(usb)
    /\ rbuf' = SubSeq(usb, 1, n)
    /\ usb' = SubSeq(usb, n + 1, Len(usb))
    /\ UNCHANGED <<messages_deque, dpc, message, need, topush, ret, obtained, noise,
                   delivered, dqAtCall, arrivedAtCall>>
    /\ UNCHANGED sessionVars
    /\ UNCHANGED <<threadVars, profileVars, frameVars>>

AppendByte ==
    /\ rbuf # <<>>
    /\ messages_deque' = Append(messages_deque, Head(rbuf))
    /\ rbuf' = Tail(rbuf)
    /\ UNCHANGED <<usb, dpc, message, need, topush, ret, obtained, noise, delivered,
                   dqAtCall, arrivedAtCall>>
    /\ UNCHANGED sessionVars
    /\ UNCHANGED <<threadVars, profileVars, frameVars>>

(***************************************************************************)
(* Handler thread, Dongle.read_message_from_deque, one deque operation     *)
(* per step.                                                               *)
(***************************************************************************)
CallRead ==
    /\ dpc = "idle"
    /\ dpc' = "scan"
    /\ message' = <<>>
    /\ ret' = NotReturned
    /\ dqAtCall' = messages_deque
    /\ arrivedAtCall' = Len(Arrived)
    /\ UNCHANGED <<usb, rbuf, messages_deque, need, topush, obtained, noise, delivered>>
    /\ UNCHANGED sessionVars
    /\ UNCHANGED <<threadVars, profileVars, frameVars>>

\* A scan that takes whatever byte comes first for the start of a frame.
ScanStopsAtAnyByte(item) == TRUE

\* The loop condition of the scan, negated: the byte popped ends the scan.
ScanStops(item) == item = SYNC

\* while item != SYNC: item = popleft(); IndexError raises NoMessagesInDeque.
ScanPop ==
    /\ dpc = "scan"
    /\ IF messages_deque = <<>> THEN
           /\ dpc' = "idle"
           /\ ret' = NoMessagesInDeque
           /\ UNCHANGED <<messages_deque, message>>
       ELSE
           /\ messages_deque' = Tail(messages_deque)
           /\ IF ScanStops(Head(messages_deque))
              THEN dpc' = "length" /\ message' = <<Head(messages_deque)>>
              ELSE UNCHANGED <<dpc, message>>
           /\ UNCHANGED ret
    /\ UNCHANGED <<usb, rbuf, need, topush, obtained, noise, delivered, dqAtCall,
                   arrivedAtCall>>
    /\ UNCHANGED sessionVars
    /\ UNCHANGED <<threadVars, profileVars, frameVars>>

\* The except branch pushing the bytes in the order they were read.
PushOrderForward(msg) == msg

\* The order in which the except branch hands the consumed bytes to appendleft.
PushOrder(msg) == Reverse(msg)

\* length = popleft(); the for loop then pops length + 2 bytes.
LengthPop ==
    /\ dpc = "length"
    /\ IF messages_deque = <<>> THEN
           /\ dpc' = "push"
           /\ topush' = PushOrder(message)
           /\ UNCHANGED <<messages_deque, message, need>>
       ELSE
           /\ messages_deque' = Tail(messages_deque)
           /\ message' = Append(message, Head(messages_deque))
           /\ need' = Head(messages_deque) + 2
           /\ dpc' = "body"
           /\ UNCHANGED topush
    /\ UNCHANGED <<usb, rbuf, ret, obtained, noise, delivered, dqAtCall, arrivedAtCall>>
    /\ UNCHANGED sessionVars
    /\ UNCHANGED <<threadVars, profileVars, frameVars>>

\* item = popleft() inside the for loop; the last one is followed by the return.
BodyPop ==
    /\ dpc = "body"
    /\ IF messages_deque = <<>> THEN
           /\ dpc' = "push"
           /\ topush' = PushOrder(message)
           /\ UNCHANGED <<messages_deque, message, need, ret, obtained>>
       ELSE
           /\ messages_deque' = Tail(messages_deque)
           /\ message' = Append(message, Head(messages_deque))
           /\ need' = need - 1
           /\ IF need = 1 THEN
                  /\ dpc' = "idle"
                  /\ ret' = ReturnedMessage(message')
                  /\ obtained' = Append(obtained, message')
              ELSE UNCHANGED <<dpc, ret, obtained>>
           /\ UNCHANGED topush
    /\ UNCHANGED <<usb, rbuf, noise, delivered, dqAtCall, arrivedAtCall>>
    /\ UNCHANGED sessionVars
    /\ UNCHANGED <<threadVars, profileVars, frameVars>>

\* The push-back done with append.
AppendRight(dq, item) == Append(dq, item)

\* deque.appendleft(item)
AppendLeft(dq, item) == <<item>> \o dq

\* for item in reversed(message): appendleft(item); then raise NoMessagesInDeque.
PushBack ==
    /\ dpc = "push"
    /\ messages_deque' = AppendLeft(messages_deque, Head(topush))
    /\ topush' = Tail(topush)
    /\ IF Len(topush) = 1
       THEN dpc' = "idle" /\ ret' = NoMessagesInDeque
       ELSE UNCHANGED <<dpc, ret>>
    /\ UNCHANGED <<usb, rbuf, message, need, obtained, noise, delivered, dqAtCall,
                   arrivedAtCall>>
    /\ UNCHANGED sessionVars
    /\ UNCHANGED <<threadVars, profileVars, frameVars>>

DequeNext ==
    \/ \E n \in 1 .. MaxChunk : UsbRead(n)
    \/ AppendByte
    \/ CallRead
    \/ ScanPop
    \/ LengthPop
    \/ BodyPop
    \/ PushBack

InitDeque == SessionInit /\ DequeInit /\ ThreadsIdle /\ ProfilesIdle /\ FramesIdle

SpecDeque == InitDeque /\ [][DequeNext]_vars

(***************************************************************************)
(* Properties of the byte deque.                                           *)
(***************************************************************************)
\* s from its first sync byte on.
RECURSIVE SyncSuffix(_)
SyncSuffix(s) ==
    IF s = <<>> THEN <<>> ELSE IF Head(s) = SYNC THEN s ELSE SyncSuffix(Tail(s))

\* s, which starts with a sync byte, holds the whole frame its length byte declares.
Complete(s) == Len(s) >= 2 /\ Len(s) >= s[2] + 4

FirstFrame(s) == SubSeq(s, 1, s[2] + 4)

\* The bytes appended to the deque since the running / last call started.
ArrivedSince == SubSeq(Arrived, arrivedAtCall + 1, Len(Arrived))

Returned == dpc = "idle" /\ ret # NotReturned

\* C8: a call that finds a sync byte followed by less than the frame declared
\* signals NoMessagesInDeque and leaves the deque holding the same bytes from
\* that sync byte on, in order (followed by what the read thread appended
\* since); a call that finds the whole frame behind the sync byte returns it.
C8_UnderflowPushesBack ==
    LET held == SyncSuffix(dqAtCall) IN
    (Returned /\ held # <<>>) =>
        /\ ~Complete(held \o ArrivedSince) => ret = NoMessagesInDeque
        /\ ret = NoMessagesInDeque => messages_deque = held \o ArrivedSince
        /\ Complete(held) =>
               /\ ret = ReturnedMessage(FirstFrame(held))
               /\ messages_deque =
                      SubSeq(held, Len(ret.msg) + 1, Len(held)) \o ArrivedSince

\* A call found the sync and length bytes of a frame and no more, and pushed
\* them back.
C8_Witness ==
    /\ Returned
    /\ ret = NoMessagesInDeque
    /\ Len(SyncSuffix(dqAtCall)) >= 2
    /\ messages_deque = SyncSuffix(dqAtCall)

\* The bytes the handler thread holds outside the deque.
Held ==
    CASE dpc \in {"length", "body"} -> message
      [] dpc = "push"               -> Reverse(topush)
      [] OTHER                      -> <<>>

InFlight == Held \o messages_deque \o rbuf \o usb

NotObtained == Flatten(SubSeq(delivered, Len(obtained) + 1, Len(delivered)))

\* C9: under every interleaving of the two threads the frames obtained are the
\* frames delivered, in order, and the bytes not yet obtained are all there,
\* once each and in order (preceded, before the first frame, by what is left
\* of the noise).
C9_FramesInDeliveryOrder ==
    /\ IsPrefix(obtained, delivered)
    /\ IsSuffix(NotObtained, InFlight)
    /\ Len(InFlight) - Len(NotObtained) <= (IF obtained = <<>> THEN Len(noise) ELSE 0)

\* The read thread appended bytes while the handler thread was pushing back,
\* after a first frame had been obtained.
C9_Witness ==
    /\ dpc = "push"
    /\ topush # <<>>
    /\ Len(messages_deque) > Len(message) - Len(topush)
    /\ obtained # <<>>

\* Bytes delivered up to the last byte of the first frame.
FirstFrameEnd == Len(noise) + Len(delivered[1])

\* C10: with non-sync bytes in front of a frame, however the bytes are split
\* into reads, a call that ended before the frame's last byte arrived signalled
\* NoMessagesInDeque, and once a call made after it arrived has ended the frame
\* has been returned, exactly as delivered.
C10_NoiseThenFrameRecovered ==
    (Returned /\ delivered # <<>>) =>
        /\ Len(Arrived) < FirstFrameEnd => ret = NoMessagesInDeque
        /\ arrivedAtCall >= FirstFrameEnd =>
               (obtained # <<>> /\ obtained[1] = delivered[1])

\* The call found the noise and the whole frame in the deque and returned the frame.
C10_Witness ==
    /\ Returned
    /\ noise # <<>>
    /\ delivered # <<>>
    /\ IsPrefix(noise, dqAtCall)
    /\ arrivedAtCall >= FirstFrameEnd
    /\ ret = ReturnedMessage(delivered[1])

(***************************************************************************)
(* SpecThreads: a session in steady state -- both threads running, one     *)
(* channel open -- in which the caller configures a further channel, stops *)
(* a thread or releases the dongle, while the dongle answers and a frame   *)
(* it has sent of its own waits on the endpoint.  A write to the dongle is *)
(* two steps: the thread enters _write, and _write returns with the        *)
(* message handed to the dongle.                                           *)
(***************************************************************************)
\* Operations the caller starts in one run.
MaxOps == 1

EVENT_TX == "EVENT_TX"

\* What AntMessage.decompose_to_dict reads from a frame: channel, message id,
\* and for a ChannelResponse the id answered and the code, for a data page
\* its number, for page 70 the number of responses and the page requested.
Frame(ch, type, id, code, page, nresp, req) ==
    [channel |-> ch, type |-> type, id |-> id, code |-> code, page |-> page,
     nresp |-> nresp, req |-> req]

Response(ch, id, code) == Frame(ch, "ChannelResponse", id, code, 0, 0, 0)

\* The frames the dongle sends without being asked.  For channel 0, where the session's
\* interface is: EVENT_TX, a broadcast data page, an acknowledged page 70
\* asking for page 0 once, a message id no interface handles (Capabilities)
\* and a byte that is no message id at all.  For channel 1, which holds no
\* interface at the start: a broadcast data page.
Events ==
    {Response(0, "RF_EVENT", EVENT_TX),
     Frame(0, "BroadcastData", None, None, 1, 0, 0),
     Frame(0, "AcknowledgedData", None, None, 70, 1, 0),
     Frame(0, "Capabilities", None, None, 0, 0, 0),
     Frame(0, "Undefined", None, None, 0, 0, 0),
     Frame(1, "BroadcastData", None, None, 1, 0, 0)}

\* hrm and bhu are AntPlusInterface subclasses (AntHRM, BushidoHeadUnit); the
\* third interface derives from AntInterface alone.
IsAntPlus(x) == x \in {"hrm", "bhu"}

\* The pages _broadcast_page of the interface's class composes.
SupportedPages(x) == IF x = "hrm" THEN {0, 2, 3, 6} ELSE IF x = "bhu" THEN {0, 220} ELSE {}

\* AntInterface._request_channel_id
RequestChannelId(x) == [id |-> "RequestMessage", channel |-> channel[x]]

\* A data page composed by the interface (broadcast_message, _broadcast_page,
\* broadcast_slave_message).
DataMessage(x) == [id |-> "BroadcastData", channel |-> channel[x]]

\* The outcome of handle_received_message that changes nothing.
Outcome(x, raised, msgs) ==
    [raised |-> raised, rtn |-> msgs, status |-> status[x], action |-> action[x],
     paired |-> paired[x], data |-> data_value[x]]

\* _handle_broadcast_data / _handle_acknowledged_data of a paired interface:
\* AntHRM stores the value received; BushidoHeadUnit, a slave, stores it and
\* answers with broadcast_slave_message(); AntInterface raises
\* NotImplementedError.
DataHandled(x, f) ==
    IF x = "hrm" THEN [Outcome(x, None, <<>>) EXCEPT !.data = f.page]
    ELSE IF x = "bhu" THEN [Outcome(x, None, <<DataMessage(x)>>) EXCEPT !.data = f.page]
    ELSE Outcome(x, "NotImplementedError", <<>>)

\* AntInterface._handle_received_message
BaseHandled(x, f) ==
    CASE f.type = "ChannelID" -> [Outcome(x, None, <<>>) EXCEPT !.paired = TRUE]
      [] f.type = "ChannelResponse" ->
             IF f.code = EVENT_TX /\ InterfaceCfg(x).master THEN
                 IF IsAntPlus(x) THEN Outcome(x, None, <<DataMessage(x)>>)
                 ELSE Outcome(x, "NotImplementedError", <<>>)
             ELSE [Outcome(x, None, <<>>) EXCEPT
                       !.status = StatusAfter(status[x], f.id, f.code),
                       !.action = ActionAfter(action[x], f.id, f.code)]
      [] f.type \in {"BroadcastData", "AcknowledgedData"} ->
             IF ~paired[x] THEN Outcome(x, None, <<RequestChannelId(x)>>)
             ELSE DataHandled(x, f)
      [] f.type = "BurstData" -> Outcome(x, None, <<>>)
      \* raise UnknownMessageID: the class is raised without the three
      \* arguments its __init__ requires, which is a TypeError
      [] OTHER -> Outcome(x, "TypeError", <<>>)

(***************************************************************************)
(* AntPlusInterface._handle_received_message: an acknowledged page 70 is   *)
(* answered with number_of_responses copies of the requested page; a page  *)
(* the class does not compose raises UnsupportedPage in AntHRM (caught: on *)
(* to AntInterface's handling) and UnboundLocalError in BushidoHeadUnit.   *)
(***************************************************************************)
Handled(x, f) ==
    IF IsAntPlus(x) /\ f.type = "AcknowledgedData" /\ f.page = 70
    THEN IF f.nresp = 0 \/ f.req \in SupportedPages(x)
         THEN Outcome(x, None, [i \in 1 .. f.nresp |-> DataMessage(x)])
         ELSE IF x = "hrm" THEN BaseHandled(x, f)
         ELSE Outcome(x, "UnboundLocalError", <<>>)
    ELSE BaseHandled(x, f)

\* The exceptions _handler_thread_function catches besides NoMessagesInDeque.
Caught == {"UnknownMessageID", "InvalidMessageError"}

\* A thread loop that never looks at its flag.
LoopRunsForever(active) == TRUE

\* while self.handler_thread_active / while self.read_thread_active
LoopRuns(active) == active

ghostVars == <<handler_alive, wlog, acked, nconf, nok, nclosed, ncalls>>

\* The state in which the session runs: threads started, interface `live`
\* configured on channel 0 and OPEN, its key, if any, at network entry 1, and
\* at most one frame the dongle has sent waiting on the IN endpoint.
InitThreads ==
    /\ \E live \in {"hrm", "bhu"} :
           /\ channels = [i \in Slots |-> IF i = 0 THEN live ELSE None]
           /\ networks = [n \in NetSlots |->
                             IF n = 1 /\ max_networks > 1
                             THEN InterfaceCfg(live).network_key ELSE None]
           /\ channel = [x \in Interfaces |-> IF x = live THEN 0 ELSE -1]
           /\ status = [x \in Interfaces |-> IF x = live THEN "OPEN" ELSE "UNASSIGNED"]
           /\ action = [x \in Interfaces |-> IF x = live THEN "OpenChannel" ELSE None]
           /\ owned = [x \in Interfaces |-> x = live]
           /\ cur = live
    /\ cycplus \in BOOLEAN
    /\ network_flag = FALSE
    /\ handler_alive = TRUE
    /\ pc = "idle"
    /\ step = 0
    /\ network = 0
    /\ closing = 0
    /\ result = "ok"
    /\ usbout = <<>>
    /\ inbound = <<>>
    /\ wlog = [x \in Interfaces |-> <<>>]
    /\ acked = [x \in Interfaces |-> {}]
    /\ nconf = 1
    /\ nok = 1
    /\ nclosed = 0
    /\ ncalls = 1
    /\ timeouts = 0
    /\ read_thread_active = TRUE
    /\ handler_thread_active = TRUE
    /\ rpc = "loop"
    /\ hpc = "loop"
    /\ rtn = <<>>
    /\ usbin \in {<<>>} \cup {<<f>> : f \in Events}
    /\ paired = [x \in Interfaces |-> FALSE]
    /\ data_value = [x \in Interfaces |-> 0]
    /\ op = "none"
    /\ nops = 0
    /\ resets = 0
    /\ DequeIdle
    /\ ProfilesIdle
    /\ FramesIdle

(***************************************************************************)
(* The caller's thread.                                                    *)
(***************************************************************************)
\* The positions in which the caller is inside a write to the dongle.
CallerWritePcs == {"net_write", "cfg_write", "close_write", "unassign_write", "reset_write"}

\* The message of the write the caller is in.
CallerCommand ==
    CASE pc = "net_write"      -> SetNetworkKeyMessage(<<>>)
      [] pc = "cfg_write"      -> [id |-> ConfigSteps(cur)[step], channel |-> channel[cur]]
      [] pc = "close_write"    -> [id |-> "CloseChannel", channel |-> closing]
      [] pc = "unassign_write" -> [id |-> "UnassignChannel", channel |-> closing]
      [] OTHER                 -> [id |-> "ResetSystem", channel |-> 0]

\* Dongle.configure_channel up to its first write: as ConfigureChannel, the
\* caller then being inside _write.
ConfigureChannelCall(x) ==
    /\ pc = "idle"
    /\ nops < MaxOps
    /\ ~owned[x]
    /\ nops' = nops + 1
    /\ LET c == GetNextChannel(channels)
           key == InterfaceCfg(x).network_key
       IN
       IF c = -1 THEN
           /\ result' = "NoMoreChannels"
           /\ UNCHANGED <<channels, channel, pc, cur, step, network, op>>
       ELSE
           /\ channels' = [channels EXCEPT ![c] = x]
           /\ channel' = [channel EXCEPT ![x] = c]
           /\ cur' = x
           /\ IF key = None \/ KeySlots(networks, key) # {} THEN
                  /\ network' = (IF key = None THEN 0 ELSE MinOf(KeySlots(networks, key)))
                  /\ pc' = "cfg_write"
                  /\ step' = 1
                  /\ op' = "configure"
                  /\ UNCHANGED result
              ELSE IF FreeNetSlots(networks) = {} THEN
                  /\ result' = "NoMoreNetworks"
                  /\ UNCHANGED <<pc, step, network, op>>
              ELSE
                  /\ network' = MinOf(FreeNetSlots(networks))
                  /\ pc' = "net_write"
                  /\ op' = "configure"
                  /\ UNCHANGED <<step, result>>
    /\ UNCHANGED <<networks, network_flag, status, action, closing, usbout, inbound,
                   owned, timeouts>>
    /\ UNCHANGED <<read_thread_active, handler_thread_active, rpc, hpc, rtn, usbin,
                   cycplus, paired, data_value, resets>>
    /\ UNCHANGED <<ghostVars, dequeVars, profileVars, frameVars>>

\* device.write returns: the message is with the dongle.
CallerWriteReturns ==
    /\ pc \in CallerWritePcs
    /\ usbout' = Append(usbout, CallerCommand)
    /\ pc' = CASE pc = "net_write"      -> "net_wait"
               [] pc = "cfg_write"      -> "cfg_wait"
               [] pc = "close_write"    -> "close_wait_closed"
               [] pc = "unassign_write" -> "close_wait_unassigned"
               [] OTHER                 -> "reset_read"
    /\ resets' = IF pc = "reset_write" THEN resets + 1 ELSE resets
    /\ UNCHANGED <<channels, networks, network_flag, channel, status, action, cur, step,
                   network, closing, result, inbound, owned, timeouts>>
    /\ UNCHANGED <<read_thread_active, handler_thread_active, rpc, hpc, rtn, usbin,
                   cycplus, paired, data_value, op, nops>>
    /\ UNCHANGED <<ghostVars, dequeVars, profileVars, frameVars>>

\* _get_network_number after its polling loop: the key is stored and
\* configure_channel goes on to ASSIGN_CHANNEL, or ValueError is raised.
NetworkWaitEnds ==
    /\ pc = "net_wait"
    /\ IF network_flag THEN
           /\ networks' = [networks EXCEPT ![network] = InterfaceCfg(cur).network_key]
           /\ network_flag' = FALSE
           /\ pc' = "cfg_write"
           /\ step' = 1
           /\ UNCHANGED <<result, timeouts, op>>
       ELSE
           /\ timeouts < MaxTimeouts
           /\ timeouts' = timeouts + 1
           /\ pc' = "idle"
           /\ op' = "none"
           /\ result' = "ValueError"
           /\ UNCHANGED <<networks, network_flag, step>>
    /\ UNCHANGED <<channels, channel, status, action, cur, network, closing, usbout,
                   inbound, owned>>
    /\ UNCHANGED <<read_thread_active, handler_thread_active, rpc, hpc, rtn, usbin,
                   cycplus, paired, data_value, nops, resets>>
    /\ UNCHANGED <<ghostVars, dequeVars, profileVars, frameVars>>

\* A wait of configure_channel returns, True or False alike: on to the next
\* write, or out of the call after the wait for OPEN.
ConfigWaitEnds ==
    /\ pc = "cfg_wait"
    /\ IF WaitCondition(cur, ConfigSteps(cur)[step]) THEN UNCHANGED timeouts
       ELSE timeouts < MaxTimeouts /\ timeouts' = timeouts + 1
    /\ IF step < Len(ConfigSteps(cur)) THEN
           /\ step' = step + 1
           /\ pc' = "cfg_write"
           /\ UNCHANGED <<result, owned, op>>
       ELSE
           /\ pc' = "idle"
           /\ op' = "none"
           /\ result' = "ok"
           /\ owned' = [owned EXCEPT ![cur] = TRUE]
           /\ UNCHANGED step
    /\ UNCHANGED <<channels, networks, network_flag, channel, status, action, cur,
                   network, closing, usbout, inbound>>
    /\ UNCHANGED <<read_thread_active, handler_thread_active, rpc, hpc, rtn, usbin,
                   cycplus, paired, data_value, nops, resets>>
    /\ UNCHANGED <<ghostVars, dequeVars, profileVars, frameVars>>

\* Dongle.stop_handler_thread: clear the flag, join the thread.
StopHandlerThread ==
    /\ pc = "idle"
    /\ nops < MaxOps
    /\ handler_thread_active
    /\ nops' = nops + 1
    /\ handler_thread_active' = FALSE
    /\ pc' = "join_handler"
    /\ op' = "stop_handler"
    /\ UNCHANGED <<channels, networks, network_flag, channel, status, action, cur, step,
                   network, closing, result, usbout, inbound, owned, timeouts>>
    /\ UNCHANGED <<read_thread_active, rpc, hpc, rtn, usbin, cycplus, paired, data_value,
                   resets>>
    /\ UNCHANGED <<ghostVars, dequeVars, profileVars, frameVars>>

\* Dongle.stop_read_thread: clear the flag, join the thread.
StopReadThread ==
    /\ pc = "idle"
    /\ nops < MaxOps
    /\ read_thread_active
    /\ nops' = nops + 1
    /\ read_thread_active' = FALSE
    /\ pc' = "join_read"
    /\ op' = "stop_read"
    /\ UNCHANGED <<channels, networks, network_flag, channel, status, action, cur, step,
                   network, closing, result, usbout, inbound, owned, timeouts>>
    /\ UNCHANGED <<handler_thread_active, rpc, hpc, rtn, usbin, cycplus, paired,
                   data_value, resets>>
    /\ UNCHANGED <<ghostVars, dequeVars, profileVars, frameVars>>

\* The first slot from i on that holds an interface, max_channels when none does.
NextLive(chs, i) ==
    LET live == {j \in Slots : j >= i /\ chs[j] # None}
    IN IF live = {} THEN max_channels ELSE MinOf(live)

(***************************************************************************)
(* USBDongle.release: close_and_unassign_channel for every slot that holds *)
(* an interface, in slot order; then _flush and reset().                   *)
(***************************************************************************)
Release ==
    /\ pc = "idle"
    /\ nops < MaxOps
    /\ nops' = nops + 1
    /\ op' = "release"
    /\ IF NextLive(channels, 0) = max_channels
       THEN pc' = "rel_flush" /\ UNCHANGED closing
       ELSE pc' = "close_write" /\ closing' = NextLive(channels, 0)
    /\ UNCHANGED <<channels, networks, network_flag, channel, status, action, cur, step,
                   network, result, usbout, inbound, owned, timeouts>>
    /\ UNCHANGED <<read_thread_active, handler_thread_active, rpc, hpc, rtn, usbin,
                   cycplus, paired, data_value, resets>>
    /\ UNCHANGED <<ghostVars, dequeVars, profileVars, frameVars>>

\* close_and_unassign_channel inside release: a wait that passed leads to
\* UNASSIGN_CHANNEL, then to the slot freed and the next slot of the loop; a
\* wait that failed raises AssertionError out of release.
CloseWaitEnds ==
    /\ pc \in {"close_wait_closed", "close_wait_unassigned"}
    /\ IF StatusSeen(channels[closing],
                     IF pc = "close_wait_closed" THEN "CLOSED" ELSE "UNASSIGNED")
       THEN IF pc = "close_wait_closed" THEN
                /\ pc' = "unassign_write"
                /\ UNCHANGED <<channels, owned, closing, result, timeouts, op>>
            ELSE
                /\ channels' = [i \in Slots |->
                                   IF i \in FreedSlots(closing) THEN None ELSE channels[i]]
                /\ owned' = [owned EXCEPT ![channels[closing]] = FALSE]
                /\ IF NextLive(channels', closing + 1) = max_channels
                   THEN pc' = "rel_flush" /\ UNCHANGED closing
                   ELSE pc' = "close_write" /\ closing' = NextLive(channels', closing + 1)
                /\ UNCHANGED <<result, timeouts, op>>
       ELSE /\ timeouts < MaxTimeouts
            /\ timeouts' = timeouts + 1
            /\ pc' = "idle"
            /\ op' = "none"
            /\ result' = "AssertionError"
            /\ UNCHANGED <<channels, owned, closing>>
    /\ UNCHANGED <<networks, network_flag, channel, status, action, cur, step, network,
                   usbout, inbound>>
    /\ UNCHANGED <<read_thread_active, handler_thread_active, rpc, hpc, rtn, usbin,
                   cycplus, paired, data_value, nops, resets>>
    /\ UNCHANGED <<ghostVars, dequeVars, profileVars, frameVars>>

(***************************************************************************)
(* release after its loop: _flush() reads the endpoint empty, and          *)
(* self.reset() -- called whatever cycplus is -- drops the tables and      *)
(* stops the handler thread, or the read thread, if its flag is set.       *)
(***************************************************************************)
ReleaseFlushAndReset ==
    /\ pc = "rel_flush"
    /\ usbin' = <<>>
    /\ channels' = [i \in Slots |-> None]
    /\ networks' = [n \in NetSlots |-> None]
    /\ IF handler_thread_active THEN
           /\ handler_thread_active' = FALSE
           /\ pc' = "join_handler"
           /\ UNCHANGED read_thread_active
       ELSE IF read_thread_active THEN
           /\ read_thread_active' = FALSE
           /\ pc' = "join_read"
           /\ UNCHANGED handler_thread_active
       ELSE
           /\ pc' = "reset_flush"
           /\ UNCHANGED <<handler_thread_active, read_thread_active>>
    /\ UNCHANGED <<network_flag, channel, status, action, cur, step, network, closing,
                   result, usbout, inbound, owned, timeouts>>
    /\ UNCHANGED <<rpc, hpc, rtn, cycplus, paired, data_value, op, nops, resets>>
    /\ UNCHANGED <<ghostVars, dequeVars, profileVars, frameVars>>

\* handler_thread.join() returns: the thread has ended.  Inside reset() the
\* read thread is stopped next.
JoinHandlerReturns ==
    /\ pc = "join_handler"
    /\ hpc \in {"exited", "dead"}
    /\ IF op = "release" THEN
           IF read_thread_active
           THEN read_thread_active' = FALSE /\ pc' = "join_read" /\ UNCHANGED op
           ELSE pc' = "reset_flush" /\ UNCHANGED <<read_thread_active, op>>
       ELSE pc' = "idle" /\ op' = "none" /\ UNCHANGED read_thread_active
    /\ UNCHANGED <<channels, networks, network_flag, channel, status, action, cur, step,
                   network, closing, result, usbout, inbound, owned, timeouts>>
    /\ UNCHANGED <<handler_thread_active, rpc, hpc, rtn, usbin, cycplus, paired,
                   data_value, nops, resets>>
    /\ UNCHANGED <<ghostVars, dequeVars, profileVars, frameVars>>

\* read_thread.join() returns: the thread has ended.
JoinReadReturns ==
    /\ pc = "join_read"
    /\ rpc = "exited"
    /\ IF op = "release" THEN pc' = "reset_flush" /\ UNCHANGED op
       ELSE pc' = "idle" /\ op' = "none"
    /\ UNCHANGED <<channels, networks, network_flag, channel, status, action, cur, step,
                   network, closing, result, usbout, inbound, owned, timeouts>>
    /\ UNCHANGED <<read_thread_active, handler_thread_active, rpc, hpc, rtn, usbin,
                   cycplus, paired, data_value, nops, resets>>
    /\ UNCHANGED <<ghostVars, dequeVars, profileVars, frameVars>>

\* reset(): self._flush(), then device.write(0x01, ResetSystemMessage).
ResetFlush ==
    /\ pc = "reset_flush"
    /\ usbin' = <<>>
    /\ pc' = "reset_write"
    /\ UNCHANGED <<channels, networks, network_flag, channel, status, action, cur, step,
                   network, closing, result, usbout, inbound, owned, timeouts>>
    /\ UNCHANGED <<read_thread_active, handler_thread_active, rpc, hpc, rtn, cycplus,
                   paired, data_value, op, nops, resets>>
    /\ UNCHANGED <<ghostVars, dequeVars, profileVars, frameVars>>

\* reset(): device.read(0x81, 5) gives the StartupMessage and release goes on
\* to give the device up, or it does not and `assert self.reset()` fails.
ResetReads(started) ==
    /\ pc = "reset_read"
    /\ pc' = IF started THEN "released" ELSE "reset_failed"
    /\ result' = IF started THEN "ok" ELSE "AssertionError"
    /\ op' = "none"
    /\ UNCHANGED <<channels, networks, network_flag, channel, status, action, cur, step,
                   network, closing, usbout, inbound, owned, timeouts>>
    /\ UNCHANGED <<read_thread_active, handler_thread_active, rpc, hpc, rtn, usbin,
                   cycplus, paired, data_value, nops, resets>>
    /\ UNCHANGED <<ghostVars, dequeVars, profileVars, frameVars>>

(***************************************************************************)
(* The handler thread, Dongle._handler_thread_function.                    *)
(***************************************************************************)
\* The while condition is false: the thread function returns.
HandlerLoopExits ==
    /\ hpc = "loop"
    /\ ~LoopRuns(handler_thread_active)
    /\ hpc' = "exited"
    /\ UNCHANGED <<sessionVars, dequeVars, profileVars, frameVars>>
    /\ UNCHANGED <<read_thread_active, handler_thread_active, rpc, rtn, usbin, cycplus,
                   paired, data_value, op, nops, resets>>

\* One iteration on the next frame (with none, NoMessagesInDeque is caught
\* and nothing changes).  An exception other than the caught ones ends the
\* thread; messages returned by the interface are written next.
HandlerIteration ==
    /\ hpc = "loop"
    /\ LoopRuns(handler_thread_active)
    /\ inbound # <<>>
    /\ inbound' = Tail(inbound)
    /\ LET f == Head(inbound)
           x == channels[f.channel]
       IN
       IF f.type = "Undefined" THEN
           \* Id(message[2]) raises ValueError
           /\ hpc' = "dead"
           /\ UNCHANGED <<network_flag, status, action, paired, data_value, rtn>>
       ELSE IF f.channel = 0 /\ f.type = "ChannelResponse"
                   /\ channel_response_handler(f.id, f.code) THEN
           /\ network_flag' = TRUE
           /\ UNCHANGED <<hpc, status, action, paired, data_value, rtn>>
       ELSE IF x = None \/ channel[x] # f.channel THEN
           \* AttributeError on None, WrongChannel
           /\ hpc' = "dead"
           /\ UNCHANGED <<network_flag, status, action, paired, data_value, rtn>>
       ELSE
           LET h == Handled(x, f) IN
           IF h.raised # None THEN
               /\ hpc' = IF h.raised \in Caught THEN "loop" ELSE "dead"
               /\ UNCHANGED <<network_flag, status, action, paired, data_value, rtn>>
           ELSE
               /\ status' = [status EXCEPT ![x] = h.status]
               /\ action' = [action EXCEPT ![x] = h.action]
               /\ paired' = [paired EXCEPT ![x] = h.paired]
               /\ data_value' = [data_value EXCEPT ![x] = h.data]
               /\ rtn' = h.rtn
               /\ hpc' = IF h.rtn = <<>> THEN "loop" ELSE "write"
               /\ UNCHANGED network_flag
    /\ UNCHANGED <<channels, networks, channel, pc, cur, step, network, closing, result,
                   usbout, owned, timeouts>>
    /\ UNCHANGED <<read_thread_active, handler_thread_active, rpc, usbin, cycplus, op,
                   nops, resets>>
    /\ UNCHANGED <<ghostVars, dequeVars, profileVars, frameVars>>

\* self._write(rtn) / self._write(msg) returns.
HandlerWriteReturns ==
    /\ hpc = "write"
    /\ usbout' = Append(usbout, Head(rtn))
    /\ rtn' = Tail(rtn)
    /\ hpc' = IF Tail(rtn) = <<>> THEN "loop" ELSE "write"
    /\ UNCHANGED <<channels, networks, network_flag, channel, status, action, pc, cur,
                   step, network, closing, result, inbound, owned, timeouts>>
    /\ UNCHANGED <<read_thread_active, handler_thread_active, rpc, usbin, cycplus, paired,
                   data_value, op, nops, resets>>
    /\ UNCHANGED <<ghostVars, dequeVars, profileVars, frameVars>>

(***************************************************************************)
(* The read thread, Dongle._read_thread_function.                          *)
(***************************************************************************)
ReaderLoopExits ==
    /\ rpc = "loop"
    /\ ~LoopRuns(read_thread_active)
    /\ rpc' = "exited"
    /\ UNCHANGED <<sessionVars, dequeVars, profileVars, frameVars>>
    /\ UNCHANGED <<read_thread_active, handler_thread_active, hpc, rtn, usbin, cycplus,
                   paired, data_value, op, nops, resets>>

\* One pass of the loop: read_to_deque calls self._read(), which returns a
\* frame, which goes to the deque, or times out with USBError, which is
\* passed over and changes nothing.
ReaderIteration ==
    /\ rpc = "loop"
    /\ LoopRuns(read_thread_active)
    /\ usbin # <<>>
    /\ usbin' = Tail(usbin)
    /\ inbound' = Append(inbound, Head(usbin))
    /\ UNCHANGED <<channels, networks, network_flag, channel, status, action, pc, cur,
                   step, network, closing, result, usbout, owned, timeouts>>
    /\ UNCHANGED <<read_thread_active, handler_thread_active, rpc, hpc, rtn, cycplus,
                   paired, data_value, op, nops, resets>>
    /\ UNCHANGED <<ghostVars, dequeVars, profileVars, frameVars>>

(***************************************************************************)
(* The dongle: it answers the oldest message written to it -- a command    *)
(* with a ChannelResponse (an accepted CLOSE_CHANNEL also with             *)
(* EVENT_CHANNEL_CLOSED), a request for the channel id with the channel    *)
(* id, a data page or RESET_SYSTEM with nothing on the endpoint -- and     *)
(* sends frames of its own.                                                *)
(***************************************************************************)
DongleResponds(code) ==
    /\ usbout # <<>>
    /\ usbout' = Tail(usbout)
    /\ LET cmd == Head(usbout) IN
       usbin' =
           CASE cmd.id \in {"BroadcastData", "ResetSystem"} -> usbin
             [] cmd.id = "RequestMessage" ->
                    Append(usbin, Frame(cmd.channel, "ChannelID", None, None, 0, 0, 0))
             [] cmd.id = "CloseChannel" /\ code = NO_ERROR ->
                    usbin \o <<Response(cmd.channel, cmd.id, code),
                               Response(cmd.channel, "RF_EVENT", CHANNEL_CLOSED)>>
             [] OTHER -> Append(usbin, Response(cmd.channel, cmd.id, code))
    /\ UNCHANGED <<channels, networks, network_flag, channel, status, action, pc, cur,
                   step, network, closing, result, inbound, owned, timeouts>>
    /\ UNCHANGED <<read_thread_active, handler_thread_active, rpc, hpc, rtn, cycplus,
                   paired, data_value, op, nops, resets>>
    /\ UNCHANGED <<ghostVars, dequeVars, profileVars, frameVars>>

ThreadsNext ==
    \/ \E x \in Interfaces : ConfigureChannelCall(x)
    \/ CallerWriteReturns
    \/ NetworkWaitEnds
    \/ ConfigWaitEnds
    \/ StopHandlerThread
    \/ StopReadThread
    \/ Release
    \/ CloseWaitEnds
    \/ ReleaseFlushAndReset
    \/ JoinHandlerReturns
    \/ JoinReadReturns
    \/ ResetFlush
    \/ \E started \in BOOLEAN : ResetReads(started)
    \/ HandlerLoopExits
    \/ HandlerIteration
    \/ HandlerWriteReturns
    \/ ReaderLoopExits
    \/ ReaderIteration
    \/ \E code \in {NO_ERROR, WRONG_STATE} : DongleResponds(code)

SpecThreads == InitThreads /\ [][ThreadsNext]_vars

\* The threads are scheduled, a write and a USB read return, join returns
\* once the thread has ended.
SpecThreadsFair ==
    /\ SpecThreads
    /\ WF_vars(HandlerLoopExits)
    /\ WF_vars(HandlerIteration)
    /\ WF_vars(HandlerWriteReturns)
    /\ WF_vars(ReaderLoopExits)
    /\ WF_vars(ReaderIteration)
    /\ WF_vars(JoinHandlerReturns)
    /\ WF_vars(JoinReadReturns)

(***************************************************************************)
(* Claims about the threads, under SpecThreads and SpecThreadsFair.        *)
(***************************************************************************)

\* C11: no two writes to the OUT endpoint are in progress at once: while the
\* caller is inside _write (for a configure_channel command or any other),
\* the handler thread is not inside _write.
C11_WritesDoNotOverlap == ~(pc \in CallerWritePcs /\ hpc = "write")

\* C12: the handler thread keeps running whatever frame comes in: no
\* exception ends it.
C12_HandlerThreadSurvives == hpc # "dead"

\* C15: during release, CLOSE_CHANNEL and UNASSIGN_CHANNEL are written only
\* once the handler thread has been stopped.
C15_TeardownAfterHandlerStopped ==
    (op = "release" /\ pc \in {"close_write", "unassign_write"})
        => (~handler_thread_active /\ hpc \in {"exited", "dead"})

\* C16: with cycplus set, release never writes RESET_SYSTEM.
C16_CycplusNeverReset == cycplus => resets = 0

\* C20: a slave interface that is not paired yet answers every BroadcastData
\* and AcknowledgedData frame with the single request for its channel id and
\* leaves its data as it was.
C20_UnpairedSlaveOnlyAsksForId ==
    [][(/\ hpc = "loop"
        /\ inbound # <<>>
        /\ inbound' = Tail(inbound)
        /\ Head(inbound).type \in {"BroadcastData", "AcknowledgedData"}
        /\ channels[Head(inbound).channel] # None
        /\ channel[channels[Head(inbound).channel]] = Head(inbound).channel
        /\ ~InterfaceCfg(channels[Head(inbound).channel]).master
        /\ ~paired[channels[Head(inbound).channel]])
       => (/\ rtn' = <<RequestChannelId(channels[Head(inbound).channel])>>
           /\ data_value' = data_value)]_vars

\* C17: once stop_handler_thread (stop_read_thread) has cleared the flag and
\* waits in join, the handler (read) thread eventually ends and the join
\* returns, the threads being scheduled and writes and reads returning.
C17_StopReturns ==
    /\ (pc = "join_handler") ~> (hpc \in {"exited", "dead"} /\ pc # "join_handler")
    /\ (pc = "join_read") ~> (rpc = "exited" /\ pc # "join_read")

\* stop_handler_thread has returned and the thread left its loop on the flag.
C17_Witness ==
    /\ pc = "idle"
    /\ nops = 1
    /\ ~handler_thread_active
    /\ hpc = "exited"
    /\ read_thread_active

(***************************************************************************)
(* SpecProfile: one master profile interface -- AntHRM, AntFE, AntSCS or   *)
(* BushidoBrake, with its data attributes set -- handling the frames the   *)
(* handler thread passes to it: EVENT_TX, on which it broadcasts the next  *)
(* page, an acknowledged page 70 asking for a page, and the channel id.    *)
(* Of a frame the interface returns, the model keeps the message id and    *)
(* the page number byte.                                                   *)
(***************************************************************************)
\* EVENT_TX frames and page 70 requests handled in one run.
MaxTicks == 210
MaxRequests == 1

Profiles == {"hrm", "fe", "scs", "brake"}

\* interleave_reset of the class
interleave_reset(p) ==
    CASE p = "hrm" -> 204
      [] p = "fe" -> 132
      [] p = "scs" -> 0
      [] p = "brake" -> 32
      [] p = "hu" -> 32

\* The increment without the reset.
NextInterleaveNoReset(p, i) == i + 1

\* AntPlusInterface.broadcast_message: interleave after the call
NextInterleave(p, i) == IF i + 1 = interleave_reset(p) THEN 0 ELSE i + 1

\* AntHRM._broadcast_message: the page broadcast at interleave i
HrmPage(i) ==
    IF i \in {0, 1, 2, 3} THEN 2
    ELSE IF i \in {68, 69, 70, 71} THEN 3
    ELSE IF i \in {136, 137, 138, 139} THEN 6
    ELSE 0

\* A schedule with page 25 at the same residues in both halves of the cycle.
FePageSameResidues(i) ==
    IF i \in {64, 65} THEN 80
    ELSE IF i \in {130, 131} THEN 81
    ELSE IF (i % 4) \in {2, 3} THEN 25
    ELSE 16

\* AntFE._broadcast_message
FePage(i) ==
    IF i \in {64, 65} THEN 80
    ELSE IF i \in {130, 131} THEN 81
    ELSE IF i < 64 /\ (i % 4) \in {2, 3} THEN 25
    ELSE IF i > 65 /\ (i % 4) \in {0, 1} THEN 25
    ELSE 16

\* BushidoBrake._broadcast_message
BrakePage(i) == IF i % 3 = 0 THEN 16 ELSE IF i % 3 = 1 THEN 1 ELSE 2

\* _broadcast_message of the class (AntSCS: always page 0)
ScheduledPage(p, i) ==
    CASE p = "hrm" -> HrmPage(i)
      [] p = "fe" -> FePage(i)
      [] p = "brake" -> BrakePage(i)
      [] p = "scs" -> 0

\* The page numbers for which _broadcast_page of the class builds a page.
\* AntSCS builds its one page whatever number is asked for.
Composes(p) ==
    CASE p = "hrm" -> {0, 2, 3, 6}
      [] p = "fe" -> {16, 17, 25, 54, 80, 81}
      [] p = "brake" -> {1, 2, 16}
      [] p = "scs" -> 0 .. 255

\* _broadcast_page(page_number, message_id) of the class at interleave il
\* and toggle tg.  AntHRM flips page_change_toggle first, when interleave is
\* a multiple of 4, and puts it into the page number byte.  A page number
\* the class does not build: UnsupportedPage in AntHRM and AntFE, a read of
\* the unassigned local `page` in BushidoBrake.  The legacy AntSCS page has
\* no page number; the byte in its place is the low byte of
\* cadence_event_time, 0 with no cadence.
BroadcastPage(p, n, id, il, tg) ==
    LET tg2 == IF p = "hrm" /\ il % 4 = 0 THEN 128 - tg ELSE tg IN
    IF n \in Composes(p)
    THEN [raised |-> None,
          frame |-> [id |-> id,
                     page |-> IF p = "hrm" THEN tg2 + n ELSE IF p = "scs" THEN 0 ELSE n],
          toggle |-> tg2]
    ELSE [raised |-> IF p = "brake" THEN "UnboundLocalError" ELSE "UnsupportedPage",
          frame |-> [id |-> None, page |-> -1],
          toggle |-> tg2]

\* The whole byte taken for the count.
number_of_responses_whole(tr) == tr

\* Page70.unpage_to_dict: number_of_responses, response_with_acknowledged
number_of_responses(tr) == tr % 128

response_with_acknowledged(tr) == (tr \div 128) % 2 = 1

\* The loop of AntPlusInterface._handle_received_message: k calls of
\* _broadcast_page, the first exception ending it.  Every call starts from
\* the toggle the call before it left; a flip undoes the flip before it, so
\* the odd calls start from tg and the even ones from the toggle left by the
\* first.
Responses(p, n, id, il, tg, k) ==
    LET call(j) == BroadcastPage(p, n, id, il,
                                 IF j % 2 = 1 THEN tg
                                 ELSE BroadcastPage(p, n, id, il, tg).toggle) IN
    IF k = 0 THEN [raised |-> None, frames |-> <<>>, toggle |-> tg]
    ELSE IF call(1).raised # None
    THEN [raised |-> call(1).raised, frames |-> <<>>, toggle |-> call(1).toggle]
    ELSE [raised |-> None, frames |-> [j \in 1 .. k |-> call(j).frame],
          toggle |-> call(k).toggle]

\* AntInterface._request_channel_id
RequestChannelIdFrame == [id |-> "RequestMessage", page |-> -1]

\* The inputs of a run: transmission-response bytes, requested pages, and
\* the command-type byte that ends the request.
TransmissionResponses == {0, 1, 2, 128, 129, 130}
RequestedPages == {0, 16, 80, 99}
CommandTypes == {1}

InitProfile ==
    /\ SessionInit
    /\ DequeIdle
    /\ ThreadsIdle
    /\ FramesIdle
    /\ prof \in Profiles
    /\ interleave = 0
    /\ page_change_toggle = 0
    /\ ppaired = FALSE
    /\ heart_rate = 255
    /\ reply = <<>>
    /\ praised = None
    /\ lastcall = [kind |-> "none", at |-> 0, tr |-> 0, req |-> 0]
    /\ bpage = -1
    /\ nticks = 0
    /\ nrequests = 0
    /\ mode = None
    /\ brake_mode = None

\* handle_received_message(ChannelResponse with EVENT_TX) on a master:
\* broadcast_message().
ProfileTick ==
    /\ nticks < MaxTicks
    /\ LET r == BroadcastPage(prof, ScheduledPage(prof, interleave), "BroadcastData",
                              interleave, page_change_toggle) IN
       /\ page_change_toggle' = r.toggle
       /\ reply' = <<r.frame>>
       /\ bpage' = r.frame.page
    /\ interleave' = NextInterleave(prof, interleave)
    /\ praised' = None
    /\ lastcall' = [kind |-> "EVENT_TX", at |-> interleave, tr |-> 0, req |-> 0]
    /\ nticks' = nticks + 1
    /\ UNCHANGED <<prof, ppaired, heart_rate, nrequests, mode, brake_mode>>
    /\ UNCHANGED <<sessionVars, dequeVars, threadVars, frameVars>>

\* A request handled as a tick is: interleave advances when replies are made.
InterleaveAfterBroadcasts(p, i, k) == IF k = 0 THEN i ELSE NextInterleave(p, i)

\* The page 70 loop calls _broadcast_page, never broadcast_message:
\* interleave after k replies is interleave before them.
InterleaveAfterReplies(p, i, k) == i

\* handle_received_message(AcknowledgedData, page 70) with transmission
\* response tr, requested page req and command type cmd.  The pages are
\* built and returned; on UnsupportedPage the frame goes to
\* AntInterface._handle_received_message, which asks for the channel id when
\* the interface is not paired and else calls _handle_acknowledged_data:
\* AntHRM stores the last byte of the frame as heart rate, AntFE ignores
\* page 70.
ProfileRequest(tr, req, cmd) ==
    /\ nrequests < MaxRequests
    /\ nrequests' = nrequests + 1
    /\ lastcall' = [kind |-> "Page70", at |-> interleave, tr |-> tr, req |-> req]
    /\ LET r == Responses(prof, req,
                          IF response_with_acknowledged(tr) THEN "AcknowledgedData"
                          ELSE "BroadcastData",
                          interleave, page_change_toggle, number_of_responses(tr)) IN
       /\ page_change_toggle' = r.toggle
       /\ IF r.raised = None THEN
              /\ reply' = r.frames
              /\ praised' = None
              /\ UNCHANGED heart_rate
          ELSE IF r.raised = "UnsupportedPage" THEN
              /\ praised' = None
              /\ IF ~ppaired THEN reply' = <<RequestChannelIdFrame>> /\ UNCHANGED heart_rate
                 ELSE /\ reply' = <<>>
                      /\ heart_rate' = IF prof = "hrm" THEN cmd ELSE heart_rate
          ELSE
              /\ praised' = r.raised
              /\ reply' = <<>>
              /\ UNCHANGED heart_rate
    /\ interleave' = InterleaveAfterReplies(prof, interleave, number_of_responses(tr))
    /\ UNCHANGED <<prof, ppaired, bpage, nticks, mode, brake_mode>>
    /\ UNCHANGED <<sessionVars, dequeVars, threadVars, frameVars>>

\* handle_received_message(ChannelID): _handle_channel_id_message
ProfileChannelId ==
    /\ ~ppaired
    /\ ppaired' = TRUE
    /\ reply' = <<>>
    /\ praised' = None
    /\ lastcall' = [kind |-> "ChannelID", at |-> interleave, tr |-> 0, req |-> 0]
    /\ UNCHANGED <<prof, interleave, page_change_toggle, heart_rate, bpage, nticks,
                   nrequests, mode, brake_mode>>
    /\ UNCHANGED <<sessionVars, dequeVars, threadVars, frameVars>>

ProfileNext ==
    \/ ProfileTick
    \/ \E tr \in TransmissionResponses, req \in RequestedPages, cmd \in CommandTypes :
           ProfileRequest(tr, req, cmd)
    \/ ProfileChannelId

SpecProfile == InitProfile /\ [][ProfileNext]_vars

(***************************************************************************)
(* Claims about the profile interfaces, under SpecProfile.                 *)
(***************************************************************************)

\* C21: for every master profile interface, 0 <= interleave < interleave_reset
\* in every reachable state.
C21_InterleaveBounded == 0 <= interleave /\ interleave < interleave_reset(prof)

\* The page numbers a class implements as numbered pages (the legacy page of
\* AntSCS carries no page number).
Implements(p) == IF p = "scs" THEN {} ELSE Composes(p)

\* C22: a page 70 request for a page the profile implements is answered with
\* exactly N frames carrying that page, N the low 7 bits of the transmission
\* response byte, all AcknowledgedData if bit 7 of the byte is set and all
\* BroadcastData otherwise.
C22_Page70Reply ==
    (lastcall.kind = "Page70" /\ lastcall.req \in Implements(prof)) =>
        /\ praised = None
        /\ Len(reply) = lastcall.tr % 128
        /\ \A i \in 1 .. Len(reply) :
               /\ reply[i].id = IF lastcall.tr >= 128 THEN "AcknowledgedData"
                                ELSE "BroadcastData"
               /\ reply[i].page % 128 = lastcall.req

\* A request for two acknowledged responses has been answered.
C22_Witness ==
    /\ lastcall.kind = "Page70"
    /\ lastcall.tr = 130
    /\ lastcall.req \in Implements(prof)
    /\ Len(reply) = 2
    /\ reply[2].id = "AcknowledgedData"

\* C23: a page 70 request that names a page the profile does not implement
\* is dropped: handling it returns no frame, raises nothing and leaves the
\* Data record (heart_rate, 255 from InitProfile) as it was.
C23_UnimplementedDropped ==
    (lastcall.kind = "Page70" /\ lastcall.req \notin Composes(prof)) =>
        /\ reply = <<>>
        /\ praised = None
        /\ heart_rate = 255

\* C24: AntHRM answers a page 70 request for page 80 with transmission
\* response 0x82 by exactly 2 AcknowledgedData frames carrying page 80.
C24_HrmPage80 ==
    (prof = "hrm" /\ lastcall.kind = "Page70" /\ lastcall.tr = 130
        /\ lastcall.req = 80) =>
        /\ Len(reply) = 2
        /\ \A i \in 1 .. Len(reply) :
               reply[i].id = "AcknowledgedData" /\ reply[i].page % 128 = 80

\* The tick of the last broadcast, counted from 0 at the first EVENT_TX.
LastTick == nticks - 1

\* C27: the low 7 bits of the page numbers AntHRM broadcasts on successive
\* EVENT_TX events have period 204: page 2 at ticks 0-3, page 3 at ticks
\* 68-71, page 6 at ticks 136-139 and page 0 at every other tick.
C27_HrmSchedule ==
    (prof = "hrm" /\ nticks > 0) =>
        LET t == LastTick % 204 IN
        bpage % 128 = IF t <= 3 THEN 2
                      ELSE IF 68 <= t /\ t <= 71 THEN 3
                      ELSE IF 136 <= t /\ t <= 139 THEN 6
                      ELSE 0

C27_Witness == prof = "hrm" /\ nticks = 206 /\ interleave = 2 /\ bpage % 128 = 2

\* C28: bit 7 of the page numbers AntHRM broadcasts flips every 4 ticks: the
\* broadcast of tick t carries the bit of the broadcast before it unless t is
\* a multiple of 4, and the inverse if it is, also across the wrap at 204 and
\* with page 70 requests handled between the ticks.
C28_ToggleEveryFourTicks ==
    [][(prof = "hrm" /\ nticks > 0 /\ nticks' = nticks + 1) =>
           ((bpage' \div 128 = bpage \div 128) <=> (nticks % 4 # 0))]_vars

\* C29 as stated: AntFE broadcasts with period 132 page 80 at ticks 64 and
\* 65, page 81 at ticks 130 and 131, page 25 at every other tick t with
\* t mod 4 in {2, 3} in both halves of the cycle, and page 16 elsewhere.
C29_FeScheduleSameResidues ==
    (prof = "fe" /\ nticks > 0) =>
        LET t == LastTick % 132 IN
        bpage = IF t \in {64, 65} THEN 80
                ELSE IF t \in {130, 131} THEN 81
                ELSE IF t % 4 \in {2, 3} THEN 25
                ELSE 16

\* C29 amended: AntFE broadcasts with period 132 page 80 at ticks 64 and 65,
\* page 81 at ticks 130 and 131, page 25 at the ticks t < 64 with t mod 4 in
\* {2, 3} and at the ticks 66 <= t < 130 with t mod 4 in {0, 1}, and page 16
\* elsewhere.
C29_FeSchedule ==
    (prof = "fe" /\ nticks > 0) =>
        LET t == LastTick % 132 IN
        bpage = IF t \in {64, 65} THEN 80
                ELSE IF t \in {130, 131} THEN 81
                ELSE IF t < 64 /\ t % 4 \in {2, 3} THEN 25
                ELSE IF 66 <= t /\ t < 130 /\ t % 4 \in {0, 1} THEN 25
                ELSE 16

C29_Witness == prof = "fe" /\ nticks = 132 + 69 /\ bpage = 25

\* C30: BushidoBrake broadcasts pages 16, 1, 2 in round robin: in every pair
\* of consecutive broadcasts page 16 is followed by page 1, page 1 by page 2
\* and page 2 by page 16, also across the interleave reset at 32.
C30_BrakeRoundRobin ==
    [][(prof = "brake" /\ nticks > 0 /\ nticks' = nticks + 1) =>
           bpage' = (IF bpage = 16 THEN 1 ELSE IF bpage = 1 THEN 2 ELSE 16)]_vars

(***************************************************************************)
(* message.py and bridge.py: AntMessage.compose and decompose on a frame,  *)
(* and one side of an AntBridge handling the frame.                        *)
(***************************************************************************)
MaxPayload == 2
MaxMessages == 2

UnsignedCharMax == 255
BroadcastDataId == 78
AcknowledgedDataId == 79
RequestMessageId == 77
ChannelIDId == 81
BurstDataId == 80

\* The values of the Id enum
Ids == {1, 62, BroadcastDataId, AcknowledgedDataId, ChannelResponseId, 84, 65, 66,
        67, 68, 69, 70, 74, 75, 76, RequestMessageId, ChannelIDId, 82, 96, 111,
        BurstDataId}

\* struct.pack in compose: the length goes into one unsigned byte
ComposeRaises(info) == Len(info) > UnsignedCharMax

\* AntMessage.decompose.  message[0] of an empty message is an IndexError;
\* the asserts on sync byte and length raise InvalidMessageError; Id(...) of
\* a byte that is no member of the enum is a ValueError.  The channel of a
\* burst frame is its low 5 bits.
decompose(m) ==
    LET failed(e) == [raised |-> e, id |-> -1, info |-> <<>>, checksum |-> -1,
                      channel |-> -1, page_number |-> -1] IN
    IF Len(m) = 0 THEN failed("IndexError")
    ELSE IF m[1] # SYNC \/ Len(m) <= 1 THEN failed("InvalidMessageError")
    ELSE IF Len(m) # m[2] + 4 THEN failed("InvalidMessageError")
    ELSE IF m[3] \notin Ids THEN failed("ValueError")
    ELSE LET length == m[2] IN
         [raised |-> None,
          id |-> m[3],
          info |-> IF length # 0 THEN SubSeq(m, 4, 3 + length) ELSE <<>>,
          checksum |-> m[4 + length],
          channel |-> IF length >= 1
                      THEN (IF m[3] = BurstDataId THEN m[4] % 32 ELSE m[4])
                      ELSE -1,
          page_number |-> IF length >= 2 THEN m[5] ELSE -1]

NotDecomposed == [raised |-> "not called", id |-> -1, info |-> <<>>, checksum |-> -1,
                  channel |-> -1, page_number |-> -1]

NotHandled == [raised |-> "not called", frame |-> <<>>, paired |-> FALSE]

\* The ids the dongle's handler passes on to a bridge side
BridgeIds == {BroadcastDataId, AcknowledgedDataId, ChannelIDId, BurstDataId}

\* AntInterface._handle_received_message: data frames pass when paired
GatePasses(isPaired) == isPaired

\* handle_received_message(message, decompose_to_dict(message)) of a
\* BridgeInterface on channel ch with target_channel `target`: what it raises,
\* the frame it returns (<<>> for None) and paired after the call.
BridgeHandle(m, ch, target, isPaired) ==
    LET d == decompose(m)
        outcome(e, f, p) == [raised |-> e, frame |-> f, paired |-> p] IN
    IF d.raised # None THEN outcome(d.raised, <<>>, isPaired)
    ELSE IF d.channel # ch THEN outcome("WrongChannel", <<>>, isPaired)
    ELSE IF d.id = ChannelIDId
    THEN (IF Len(d.info) < 5 THEN outcome("IndexError", <<>>, isPaired)
          ELSE outcome(None, <<>>, isPaired \/ d.info[1] = ch))
    ELSE IF d.id \in {BroadcastDataId, AcknowledgedDataId}
    THEN (IF ~GatePasses(isPaired)
          THEN outcome(None, compose(RequestMessageId, <<ch, ChannelIDId>>),
                      isPaired)
          ELSE outcome(None, compose(d.id, [d.info EXCEPT ![1] = target]), isPaired))
    ELSE IF d.id = BurstDataId THEN outcome(None, <<>>, isPaired)
    ELSE outcome("UnknownMessageID", <<>>, isPaired)

\* The payloads of a run: every short one over three byte values, a channel
\* id payload for each channel, and the longest payload compose takes with
\* the one a byte longer.
PayloadBytes == {0, 1, SYNC}

Payloads ==
    SeqsUpTo(PayloadBytes, MaxPayload)
        \cup {<<c, 0, 0, 0, 0>> : c \in {0, 1}}
        \cup {[i \in 1 .. n |-> i % 256] : n \in {UnsignedCharMax, UnsignedCharMax + 1}}

InitFrames ==
    /\ SessionInit /\ DequeIdle /\ ThreadsIdle /\ ProfilesIdle
    /\ f_id \in Ids
    /\ f_info \in Payloads
    /\ fpc = "input"
    /\ framed = <<>>
    /\ decomposed = NotDecomposed
    /\ b_channel \in {0, 1}
    /\ target_channel = 1 - b_channel
    /\ b_paired = FALSE
    /\ b_out = NotHandled
    /\ nframed = 1

\* AntMessage.compose(f_id, f_info)
ComposeFrame ==
    /\ fpc = "input"
    /\ IF ComposeRaises(f_info)
       THEN framed' = <<>> /\ fpc' = "raised"
       ELSE framed' = compose(f_id, f_info) /\ fpc' = "composed"
    /\ UNCHANGED <<f_id, f_info, decomposed, b_channel, target_channel, b_paired,
                   b_out, nframed>>
    /\ UNCHANGED <<sessionVars, dequeVars, threadVars, profileVars>>

\* AntMessage.decompose(framed)
DecomposeFrame ==
    /\ fpc = "composed"
    /\ decomposed' = decompose(framed)
    /\ fpc' = "decomposed"
    /\ UNCHANGED <<f_id, f_info, framed, b_channel, target_channel, b_paired, b_out,
                   nframed>>
    /\ UNCHANGED <<sessionVars, dequeVars, threadVars, profileVars>>

\* The bridge side handles the frame.
BridgeHandles ==
    /\ fpc = "composed"
    /\ f_id \in BridgeIds
    /\ LET r == BridgeHandle(framed, b_channel, target_channel, b_paired) IN
       /\ b_out' = r
       /\ b_paired' = r.paired
    /\ fpc' = "handled"
    /\ UNCHANGED <<f_id, f_info, framed, decomposed, b_channel, target_channel,
                   nframed>>
    /\ UNCHANGED <<sessionVars, dequeVars, threadVars, profileVars>>

\* The next id and payload.
NextInput(id, info) ==
    /\ fpc \in {"raised", "decomposed", "handled"}
    /\ nframed < MaxMessages
    /\ nframed' = nframed + 1
    /\ f_id' = id
    /\ f_info' = info
    /\ fpc' = "input"
    /\ framed' = <<>>
    /\ decomposed' = NotDecomposed
    /\ b_out' = NotHandled
    /\ UNCHANGED <<b_channel, target_channel, b_paired>>
    /\ UNCHANGED <<sessionVars, dequeVars, threadVars, profileVars>>

FramesNext ==
    \/ ComposeFrame
    \/ DecomposeFrame
    \/ BridgeHandles
    \/ \E id \in Ids, info \in Payloads : NextInput(id, info)

SpecFrames == InitFrames /\ [][FramesNext]_vars

(***************************************************************************)
(* Claims about frames and the bridge, under SpecFrames.                   *)
(***************************************************************************)

\* C25: a BroadcastData or AcknowledgedData frame handled by a bridge side
\* makes the handler return one frame with the same message id, the same
\* payload except that byte 0 is the peer side's channel, and the checksum
\* computed over the rewritten bytes.
C25_BridgeRetransmits ==
    (fpc = "handled" /\ f_id \in {BroadcastDataId, AcknowledgedDataId}
        /\ Len(f_info) >= 1 /\ f_info[1] = b_channel) =>
        /\ b_out.raised = None
        /\ Len(b_out.frame) = Len(framed)
        /\ b_out.frame[3] = f_id
        /\ b_out.frame[4] = target_channel
        /\ \A i \in 5 .. Len(framed) - 1 : b_out.frame[i] = framed[i]
        /\ b_out.frame[Len(framed)] = XorUpTo(b_out.frame, Len(framed) - 1)

\* C26: for every message id and payload of length 0..255, decompose of the
\* composed frame yields that id and that payload, and the last byte of the
\* composed frame is the XOR of all bytes before it.
C26_RoundTrip ==
    /\ fpc = "raised" => Len(f_info) > 255
    /\ fpc \in {"composed", "decomposed", "handled"} =>
           framed[Len(framed)] = XorUpTo(framed, Len(framed) - 1)
    /\ fpc = "decomposed" =>
           /\ decomposed.raised = None
           /\ decomposed.id = f_id
           /\ decomposed.info = f_info

C26_Witness ==
    /\ fpc = "decomposed"
    /\ Len(f_info) = 255
    /\ decomposed.info = f_info
    /\ nframed = 2

(***************************************************************************)
(* Further claims about the profile interfaces, under SpecProfile.         *)
(***************************************************************************)

\* C37: the first frame a freshly initialised AntHRM master emits, at
\* interleave 0, is a BroadcastData frame with page number 2 and bit 7 of
\* the page number byte clear.
C37_FirstHrmFrame ==
    (prof = "hrm" /\ nticks = 1 /\ nrequests = 0 /\ lastcall.kind = "EVENT_TX") =>
        /\ Len(reply) = 1
        /\ reply[1].id = "BroadcastData"
        /\ reply[1].page % 128 = 2
        /\ reply[1].page \div 128 = 0

\* C40: handling a page 70 request, whatever the number of replies, leaves
\* interleave as it was, so that the next EVENT_TX broadcasts the page of
\* the same tick.
C40_RequestKeepsInterleave ==
    [][nrequests' = nrequests + 1 => interleave' = interleave]_vars

C40_Witness ==
    /\ lastcall.kind = "Page70"
    /\ lastcall.tr \in {2, 130}
    /\ Len(reply) = 2
    /\ interleave = 5
    /\ nticks = 5

(***************************************************************************)
(* tacx/bushido.py: BushidoHeadUnit as a slave, the frames it receives     *)
(* from its brake and what it returns for each.  The brake adopts the mode *)
(* of every mode request the head unit returns.                            *)
(***************************************************************************)
MaxEmissions == 3

TacxHUMode_standalone == 0
TacxHUMode_reset_distance == 1
TacxHUMode_training == 2
TacxHUMode_paused == 3
TacxHUMode_pc == 4

TacxInfoSubPage_serial == 1
TacxInfoSubPage_version == 2
TacxInfoSubPage_mode == 3
TacxInfoSubPage_brake_version == 17
TacxInfoSubPage_brake_serial == 18

\* BushidoHeadUnit.mode and _next_mode(): None
NoMode == -1

TacxHUModes == {TacxHUMode_standalone, TacxHUMode_reset_distance,
                TacxHUMode_training, TacxHUMode_paused, TacxHUMode_pc}

\* A successor that steps through the modes by their enum values.
NextModeByValue(m) ==
    IF m \in TacxHUModes /\ m # TacxHUMode_training THEN (m + 1) % 5 ELSE NoMode

\* BushidoHeadUnit._next_mode for self.mode = m
NextMode(m) ==
    IF m = TacxHUMode_standalone THEN TacxHUMode_pc
    ELSE IF m = TacxHUMode_pc THEN TacxHUMode_reset_distance
    ELSE IF m = TacxHUMode_reset_distance THEN TacxHUMode_paused
    ELSE IF m = TacxHUMode_paused THEN TacxHUMode_training
    ELSE NoMode

\* A data frame by its page number, sub page number and the byte after it
HuFrame(id, page, sub, arg) == [id |-> id, page |-> page, sub |-> sub, arg |-> arg]

\* TacxPage172.page_from_dict(sub_page = mode, mode = m) in BroadcastData
ModeRequest(m) == HuFrame("BroadcastData", 172, TacxInfoSubPage_mode, m)

\* AntInterface._request_channel_id
HuRequestChannelId == HuFrame("RequestMessage", -1, -1, -1)

\* Page 220 with the sub pages the other way round.
SlavePage220OddFirst(i) ==
    HuFrame("BroadcastData", 220, IF i % 2 = 0 THEN 2 ELSE 1, 0)

\* BushidoHeadUnit._broadcast_page(220) at interleave i: sub page 1 at even
\* interleave, 2 at odd (the data bytes are left out)
SlavePage220(i) ==
    HuFrame("BroadcastData", 220, IF i % 2 = 0 THEN 1 ELSE 2, 0)

\* BushidoHeadUnit.broadcast_slave_message: interleave after the increment
\* and the reset, and the frame returned for it
SlaveInterleave(i) == IF i + 1 = interleave_reset("hu") THEN 0 ELSE i + 1

SlaveMessage(i) ==
    LET j == SlaveInterleave(i) IN
    IF i + 1 = interleave_reset("hu") THEN HuFrame("BroadcastData", 0, 0, 0)
    ELSE IF j = 1 THEN HuFrame("BroadcastData", 172, TacxInfoSubPage_version, 0)
    ELSE IF j = 2 THEN HuFrame("BroadcastData", 172, TacxInfoSubPage_brake_version, 0)
    ELSE IF j = 3 THEN HuFrame("BroadcastData", 172, TacxInfoSubPage_brake_serial, 0)
    ELSE SlavePage220(j)

\* BushidoHeadUnit._handle_broadcast_data(page, info) on a slave with mode m
\* and interleave i: the mode and interleave after it and what it returns.
\* A serial response (page 173, sub page serial) stores the reported mode
\* and returns the request for the next mode when there is one; every other
\* path ends in broadcast_slave_message.
HandleBroadcastData(page, sub, arg, m, i) ==
    LET m2 == IF page = 173 /\ sub = TacxInfoSubPage_serial THEN arg ELSE m IN
    IF page = 173 /\ sub = TacxInfoSubPage_serial /\ NextMode(m2) # NoMode
    THEN [mode |-> m2, interleave |-> i, frame |-> ModeRequest(NextMode(m2))]
    ELSE [mode |-> m2, interleave |-> SlaveInterleave(i), frame |-> SlaveMessage(i)]

\* The pages the brake sends other than the serial response: page 173 with
\* the version, page 221 sub pages 1 and 2, page 16.
OtherBrakePages == {<<173, TacxInfoSubPage_version>>, <<221, 1>>, <<221, 2>>, <<16, 0>>}

HuCall(kind, page, sub, arg) == [kind |-> kind, page |-> page, sub |-> sub, arg |-> arg]

\* The emissions counted, up to MaxEmissions.
Counted(n) == IF n < MaxEmissions THEN n + 1 ELSE n

InitHeadUnit ==
    /\ SessionInit /\ DequeIdle /\ ThreadsIdle /\ FramesIdle
    /\ prof = "hu"
    /\ interleave = 0
    /\ page_change_toggle = 0
    /\ ppaired = FALSE
    /\ heart_rate = 0
    /\ reply = <<>>
    /\ praised = None
    /\ lastcall = HuCall("none", -1, -1, -1)
    /\ bpage = -1
    /\ nticks = 0
    /\ nrequests = 0
    /\ mode = NoMode
    /\ brake_mode \in TacxHUModes

\* handle_received_message(ChannelID): _handle_channel_id_message
HuChannelId ==
    /\ ~ppaired
    /\ ppaired' = TRUE
    /\ reply' = <<>>
    /\ lastcall' = HuCall("ChannelID", -1, -1, -1)
    /\ UNCHANGED <<prof, interleave, page_change_toggle, heart_rate, praised, bpage,
                   nticks, nrequests, mode, brake_mode>>
    /\ UNCHANGED <<sessionVars, dequeVars, threadVars, frameVars>>

\* handle_received_message(ChannelResponse, EVENT_RX_FAIL): _handle_rx_fail
HuRxFail ==
    /\ reply' = <<SlaveMessage(interleave)>>
    /\ interleave' = SlaveInterleave(interleave)
    /\ nticks' = Counted(nticks)
    /\ lastcall' = HuCall("RX_FAIL", -1, -1, -1)
    /\ UNCHANGED <<prof, page_change_toggle, ppaired, heart_rate, praised, bpage,
                   nrequests, mode, brake_mode>>
    /\ UNCHANGED <<sessionVars, dequeVars, threadVars, frameVars>>

\* handle_received_message(ChannelResponse, EVENT_TX) on the slave
HuEventTx ==
    /\ reply' = <<>>
    /\ lastcall' = HuCall("EVENT_TX", -1, -1, -1)
    /\ UNCHANGED <<prof, interleave, page_change_toggle, ppaired, heart_rate, praised,
                   bpage, nticks, nrequests, mode, brake_mode>>
    /\ UNCHANGED <<sessionVars, dequeVars, threadVars, frameVars>>

\* handle_received_message(BroadcastData) with the page the brake sent: the
\* request for the channel id while not paired, else _handle_broadcast_data.
\* The brake takes the mode of a mode request.
HuBroadcast(page, sub, arg) ==
    /\ lastcall' = HuCall("BroadcastData", page, sub, arg)
    /\ IF ~ppaired
       THEN /\ reply' = <<HuRequestChannelId>>
            /\ UNCHANGED <<interleave, mode, brake_mode, nticks>>
       ELSE LET r == HandleBroadcastData(page, sub, arg, mode, interleave) IN
            /\ reply' = <<r.frame>>
            /\ mode' = r.mode
            /\ interleave' = r.interleave
            /\ nticks' = IF r.interleave = interleave THEN nticks ELSE Counted(nticks)
            /\ brake_mode' = IF r.frame.page = 172 /\ r.frame.sub = TacxInfoSubPage_mode
                             THEN r.frame.arg ELSE brake_mode
    /\ UNCHANGED <<prof, page_change_toggle, ppaired, heart_rate, praised, bpage,
                   nrequests>>
    /\ UNCHANGED <<sessionVars, dequeVars, threadVars, frameVars>>

\* The brake's serial response, reporting its mode
HuSerial == HuBroadcast(173, TacxInfoSubPage_serial, brake_mode)

\* Any other page of the brake
HuOtherPage == \E ps \in OtherBrakePages : HuBroadcast(ps[1], ps[2], 0)

\* handle_received_message(AcknowledgedData): _handle_acknowledged_data calls
\* _handle_broadcast_data and returns nothing.
HuAcknowledged(page, sub, arg) ==
    /\ lastcall' = HuCall("AcknowledgedData", page, sub, arg)
    /\ IF ~ppaired
       THEN /\ reply' = <<HuRequestChannelId>>
            /\ UNCHANGED <<interleave, mode>>
       ELSE LET r == HandleBroadcastData(page, sub, arg, mode, interleave) IN
            /\ reply' = <<>>
            /\ mode' = r.mode
            /\ interleave' = r.interleave
    /\ UNCHANGED <<prof, page_change_toggle, ppaired, heart_rate, praised, bpage,
                   nticks, nrequests, brake_mode>>
    /\ UNCHANGED <<sessionVars, dequeVars, threadVars, frameVars>>

HuAcknowledgedSerial == HuAcknowledged(173, TacxInfoSubPage_serial, brake_mode)

HuAcknowledgedOther == \E ps \in OtherBrakePages : HuAcknowledged(ps[1], ps[2], 0)

HeadUnitNext ==
    \/ HuChannelId
    \/ HuRxFail
    \/ HuEventTx
    \/ HuSerial
    \/ HuOtherPage
    \/ HuAcknowledgedSerial
    \/ HuAcknowledgedOther

SpecHeadUnit == InitHeadUnit /\ [][HeadUnitNext]_vars

\* The channel id arrives and the brake keeps sending its serial response.
SpecHeadUnitFair ==
    SpecHeadUnit /\ WF_vars(HuChannelId) /\ WF_vars(HuSerial)

(***************************************************************************)
(* Claims about the Bushido head unit, under SpecHeadUnit and              *)
(* SpecHeadUnitFair.                                                       *)
(***************************************************************************)

\* The frame of tick t of the 32-tick cycle: keep-alive page 0 at tick 0,
\* page 172 requests for version, brake_version and brake_serial at ticks
\* 1, 2 and 3, page 220 sub page 1 at the even and sub page 2 at the odd
\* ticks from 4 to 31.
CycleFrame(t) ==
    IF t = 0 THEN HuFrame("BroadcastData", 0, 0, 0)
    ELSE IF t = 1 THEN HuFrame("BroadcastData", 172, 2, 0)
    ELSE IF t = 2 THEN HuFrame("BroadcastData", 172, 17, 0)
    ELSE IF t = 3 THEN HuFrame("BroadcastData", 172, 18, 0)
    ELSE HuFrame("BroadcastData", 220, IF t % 2 = 0 THEN 1 ELSE 2, 0)

\* A received event with no mode request pending: an RX failure, or a
\* broadcast page handled by the paired head unit other than a serial
\* response reporting a mode before training.
NoModeRequestPending(c) ==
    \/ c.kind = "RX_FAIL"
    \/ /\ c.kind = "BroadcastData"
       /\ ppaired
       /\ ~(c.page = 173 /\ c.sub = 1 /\ c.arg # 2)

ModeSequence == <<0, 4, 1, 3, 2>>

Successor(m) ==
    LET k == CHOOSE j \in 1 .. 5 : ModeSequence[j] = m IN ModeSequence[k + 1]

IsModeRequest(r) == r # <<>> /\ r[1].page = 172 /\ r[1].sub = 3

TakesFrame == handler_alive /\ inbound # <<>> /\ inbound' = Tail(inbound)

\* The frame taken is the acknowledgement of SetNetworkKey on channel 0.
IsNetworkKeyAck(f) == f.channel = 0 /\ f.code = "RESPONSE_NO_ERROR" /\ f.id = "SetNetworkKey"

\* C33: a ChannelResponse with RESPONSE_NO_ERROR handled by an interface
\* sets its action to the command id answered and its status to ASSIGNED,
\* OPEN, CLOSING or UNASSIGNED for AssignChannel, OpenChannel, CloseChannel
\* or UnassignChannel, leaving the status for every other id; one with an
\* error code leaves status and action as they were.
C33_ResponseSetsStatusAndAction ==
    [][(/\ TakesFrame
        /\ ~IsNetworkKeyAck(Head(inbound))
        /\ channels[Head(inbound).channel] # None
        /\ channel[channels[Head(inbound).channel]] = Head(inbound).channel)
       => LET f == Head(inbound)
              x == channels[f.channel]
          IN /\ f.code = "RESPONSE_NO_ERROR" =>
                    /\ action'[x] = f.id
                    /\ status'[x] = IF f.id = "AssignChannel" THEN "ASSIGNED"
                                    ELSE IF f.id = "OpenChannel" THEN "OPEN"
                                    ELSE IF f.id = "CloseChannel" THEN "CLOSING"
                                    ELSE IF f.id = "UnassignChannel" THEN "UNASSIGNED"
                                    ELSE status[x]
             /\ f.code = "CHANNEL_IN_WRONG_STATE" =>
                    status'[x] = status[x] /\ action'[x] = action[x]]_vars

C33_Witness ==
    \E x \in Interfaces :
        /\ channel[x] # -1
        /\ channels[channel[x]] = x
        /\ action[x] = "ChannelRfFrequency"
        /\ status[x] = "ASSIGNED"

\* C35: the acknowledgement of SetNetworkKey on channel 0 sets network_flag
\* and is not passed to the interface in slot 0: no status and no action
\* changes, and the handler thread lives on.
C35_NetworkKeyAckNotForwarded ==
    [][(TakesFrame /\ IsNetworkKeyAck(Head(inbound)))
       => (network_flag' /\ status' = status /\ action' = action /\ handler_alive')]_vars

C35_Witness ==
    /\ network_flag
    /\ pc = "net_wait"
    /\ channels[0] # None
    /\ action[channels[0]] # "SetNetworkKey"

\* C38: network_flag is false whenever no allocation waits for it, so that
\* a key is stored only after the acknowledgement of the SET_NETWORK_KEY
\* written for the same allocation.
C38_FlagOnlyWhileWaiting == network_flag => pc = "net_wait"

(***************************************************************************)
(* Further claims about the handler thread, under SpecThreads.             *)
(***************************************************************************)

\* C34: a master interface passes every BroadcastData and AcknowledgedData
\* frame to its page handler whether or not it has handled a ChannelID
\* message: it never answers a data frame with the request for its channel
\* id.
C34_MasterNeverAsksForId ==
    [][(/\ hpc = "loop"
        /\ inbound # <<>>
        /\ inbound' = Tail(inbound)
        /\ Head(inbound).type \in {"BroadcastData", "AcknowledgedData"}
        /\ channels[Head(inbound).channel] # None
        /\ channel[channels[Head(inbound).channel]] = Head(inbound).channel
        /\ InterfaceCfg(channels[Head(inbound).channel]).master)
       => \A i \in 1 .. Len(rtn') : rtn'[i].id # "RequestMessage"]_vars

\* C32: every EVENT_TX handled by a master profile interface yields exactly
\* one data frame and advances interleave by one modulo interleave_reset of
\* the class: the counter stays within 0 .. interleave_reset - 1 and goes to
\* the next value, or from the last value back to 0.
C32_TickAdvancesModuloReset ==
    [][nticks' = nticks + 1 =>
          /\ Len(reply') = 1
          /\ reply'[1].id = "BroadcastData"
          /\ interleave' \in 0 .. interleave_reset(prof) - 1
          /\ \/ interleave' = interleave + 1
             \/ interleave' = 0 /\ interleave + 1 = interleave_reset(prof)]_vars

(***************************************************************************)
(* bridge.py and dongle.py: AntBridge.configure on the caller's thread     *)
(* while the handler thread passes the frames of the channels already open *)
(* to the two sides of the bridge.  b_channel, target_channel and b_paired *)
(* hold one value per side.                                                *)
(***************************************************************************)
\* Frames the handler thread dispatches to the bridge in one run.
MaxBridgeFrames == 4

Sides == {"slave", "master"}

\* target_channel is annotated in the class body and assigned nowhere before
\* AntBridge.configure does: the attribute does not exist.
NoAttribute == -1

\* The ids of the frames the dongle passes to a bridge side in a run
BridgeFrameIds == {BroadcastDataId, AcknowledgedDataId, ChannelIDId}

\* The content after the channel byte: a data page, or the rest of a
\* ChannelID message.
BridgeContent(id) == IF id = ChannelIDId THEN {<<1, 0, 120, 1>>} ELSE {<<0>>, <<1>>}

\* handle_received_message of a bridge side whose target_channel may not
\* exist: the logger call of _handle_broadcast_data and
\* _handle_acknowledged_data reads self.target_channel first.
BridgeSideHandle(m, ch, target, isPaired) ==
    LET d == decompose(m) IN
    IF /\ d.raised = None
       /\ d.channel = ch
       /\ d.id \in {BroadcastDataId, AcknowledgedDataId}
       /\ GatePasses(isPaired)
       /\ target = NoAttribute
    THEN [raised |-> "AttributeError", frame |-> <<>>, paired |-> isPaired]
    ELSE BridgeHandle(m, ch, target, isPaired)

\* After cls(master, slave): two sides, no channel, not paired.
InitBridge ==
    /\ SessionInit /\ DequeIdle /\ ThreadsIdle /\ ProfilesIdle
    /\ f_id = 0
    /\ f_info = <<>>
    /\ fpc = "configure_slave"
    /\ framed = <<>>
    /\ decomposed = NotDecomposed
    /\ b_channel = [s \in Sides |-> NoAttribute]
    /\ target_channel = [s \in Sides |-> NoAttribute]
    /\ b_paired = [s \in Sides |-> FALSE]
    /\ b_out = NotHandled
    /\ nframed = 0

\* dongle.configure_channel(bridge.slave) returns: the slave side has the
\* first channel and the channel is open.
ConfigureSlave ==
    /\ fpc = "configure_slave"
    /\ b_channel' = [b_channel EXCEPT !["slave"] = 0]
    /\ fpc' = "configure_master"
    /\ UNCHANGED <<f_id, f_info, framed, decomposed, target_channel, b_paired, b_out,
                   nframed>>
    /\ UNCHANGED <<sessionVars, dequeVars, threadVars, profileVars>>

\* dongle.configure_channel(bridge.master) returns.
ConfigureMaster ==
    /\ fpc = "configure_master"
    /\ b_channel' = [b_channel EXCEPT !["master"] = 1]
    /\ fpc' = "publish_slave"
    /\ UNCHANGED <<f_id, f_info, framed, decomposed, target_channel, b_paired, b_out,
                   nframed>>
    /\ UNCHANGED <<sessionVars, dequeVars, threadVars, profileVars>>

\* bridge.slave.target_channel = bridge.master.channel
PublishSlaveTarget ==
    /\ fpc = "publish_slave"
    /\ target_channel' = [target_channel EXCEPT !["slave"] = b_channel["master"]]
    /\ fpc' = "publish_master"
    /\ UNCHANGED <<f_id, f_info, framed, decomposed, b_channel, b_paired, b_out,
                   nframed>>
    /\ UNCHANGED <<sessionVars, dequeVars, threadVars, profileVars>>

\* bridge.master.target_channel = bridge.slave.channel
PublishMasterTarget ==
    /\ fpc = "publish_master"
    /\ target_channel' = [target_channel EXCEPT !["master"] = b_channel["slave"]]
    /\ fpc' = "configured"
    /\ UNCHANGED <<f_id, f_info, framed, decomposed, b_channel, b_paired, b_out,
                   nframed>>
    /\ UNCHANGED <<sessionVars, dequeVars, threadVars, profileVars>>

\* One iteration of _handler_thread_function for a frame of side s, whose
\* channel is open.  AttributeError is not among the exceptions the loop
\* catches: it ends the thread.
DispatcherHandles(s, id, content) ==
    /\ b_channel[s] # NoAttribute
    /\ b_out.raised # "AttributeError"
    /\ nframed < MaxBridgeFrames
    /\ nframed' = nframed + 1
    /\ f_id' = id
    /\ f_info' = <<b_channel[s]>> \o content
    /\ framed' = compose(id, <<b_channel[s]>> \o content)
    /\ LET r == BridgeSideHandle(compose(id, <<b_channel[s]>> \o content),
                                 b_channel[s], target_channel[s], b_paired[s]) IN
       /\ b_out' = r
       /\ b_paired' = [b_paired EXCEPT ![s] = r.paired]
    /\ UNCHANGED <<fpc, decomposed, b_channel, target_channel>>
    /\ UNCHANGED <<sessionVars, dequeVars, threadVars, profileVars>>

BridgeNext ==
    \/ ConfigureSlave
    \/ ConfigureMaster
    \/ PublishSlaveTarget
    \/ PublishMasterTarget
    \/ \E s \in Sides, id \in BridgeFrameIds :
           \E content \in BridgeContent(id) : DispatcherHandles(s, id, content)

SpecBridge == InitBridge /\ [][BridgeNext]_vars

(***************************************************************************)
(* Claims about AntBridge.configure, under SpecBridge.                     *)
(***************************************************************************)

\* C39: whenever a bridge side's data handler runs on the handler thread for
\* a BroadcastData or AcknowledgedData frame (the side is paired, so the
\* frame passes the gate), the side's target_channel has been assigned.
C39_TargetSetBeforeData ==
    [][\A s \in Sides :
          (/\ nframed' = nframed + 1
           /\ f_id' \in {BroadcastDataId, AcknowledgedDataId}
           /\ f_info'[1] = b_channel[s]
           /\ b_paired[s])
          => target_channel[s] # NoAttribute]_vars
====
